---- MODULE Spec2Model ----
(***************************************************************************)
(* Voice pipeline of Chill-Panda: the per-session VoiceUsageTracker and   *)
(* its VoiceAbuseDetector, the Deepgram TTS client's audio callback, the   *)
(* voice-usage repository, the LLM driver, the socket manager and the      *)
(* websocket endpoint that builds and supervises a session's tasks.        *)
(* asyncio is cooperative: an action is the code a task runs between two   *)
(* suspension points. Tasks made with create_task start in creation order  *)
(* (the loop's ready queue); a task awaiting the database resumes at any   *)
(* later time. The dispatcher and the speech-to-text client are not part  *)
(* of the sources at hand: broadcast enqueues the message for every        *)
(* subscriber without suspending the publisher, a woken handler joins the  *)
(* ready queue, and the provider's audio callback runs on the event loop.  *)
(***************************************************************************)
EXTENDS Integers, Sequences, FiniteSets, TLC

\* ------------------------------------------------------------------ bounds
NSessions == 2
MaxChunks == 2
MaxDay == 1
MaxTurns == 2
MaxTokens == 2
MaxSeconds == 6
MaxActs == 3
MaxSockets == 3       \* sockets one Minimax client may open
MinimaxTurns == 1     \* turns of a conversation with the Minimax client
MaxHandlerSeconds == 6   \* seconds of the VoiceUsageHandler's clock
MaxDirect == 2   \* calls of _add_usage made on a handler that is not run
MaxSegments == 2   \* speech segments of a VoiceUsageHandler
MaxReconnects == 1   \* connections made again with a session_id
MaxSessionSeconds == 7201 \* seconds a session lasts before it is ended
MaxCalls == 3        \* calls of connect_websocket made on one client

Sessions == 1..NSessions
Chunks == 1..MaxChunks
Days == 0..MaxDay

\* --------------------------------------------------- configuration (config.py)
VOICE_LIMIT_SESSION_MINUTES == 1
VOICE_LIMIT_DAILY_MINUTES == 3
VOICE_LIMIT_MONTHLY_MINUTES == 5
AUDIO_SAMPLE_RATE == 16000
AUDIO_BITS_PER_SAMPLE == 16
AUDIO_CHANNELS == 1
VOICE_ABUSE_CONTINUOUS_THRESHOLD_MINUTES == 30
VOICE_ABUSE_RECONNECT_THRESHOLD == 10
VOICE_ABUSE_RECONNECT_WINDOW_SECONDS == 300
AUDIO_BYTES_PER_MS == ((AUDIO_SAMPLE_RATE * AUDIO_CHANNELS * AUDIO_BITS_PER_SAMPLE) \div 8) \div 1000

\* VoiceUsageTracker.__init__: limits and warning thresholds in milliseconds
session_limit_ms == VOICE_LIMIT_SESSION_MINUTES * 60 * 1000
daily_limit_ms == VOICE_LIMIT_DAILY_MINUTES * 60 * 1000
monthly_limit_ms == VOICE_LIMIT_MONTHLY_MINUTES * 60 * 1000
\* int(limit * 0.8)
session_warning_ms == (session_limit_ms * 8) \div 10
daily_warning_ms == (daily_limit_ms * 8) \div 10
monthly_warning_ms == (monthly_limit_ms * 8) \div 10

\* VoiceAbuseDetector.__init__: the continuous-use threshold in milliseconds
continuous_threshold_ms == VOICE_ABUSE_CONTINUOUS_THRESHOLD_MINUTES * 60 * 1000

\* Sizes (bytes) of the audio chunks the provider delivers.
ChunkBytes == {0, 4096, 384010, 1536000}
\* (daily, monthly) usage of the user persisted by earlier sessions.
InitUsage == {<<0, 0>>, <<168000, 168000>>, <<168000, 288000>>,
              <<180000, 180000>>, <<0, 300000>>}

VARIABLES
    enabled,     \* VOICE_USAGE_ENABLED, copied into every tracker
    today,       \* the UTC day datetime.utcnow() falls in
    tr,          \* tr[s]: the fields of session s's VoiceUsageTracker
    phase,       \* phase[s]: "new", "running", "ended" (websocket_endpoint)
    tts,         \* tts[s]: fields of the TextToSpeechDeepgram of session s
    ready,       \* the loop's ready queue: tasks created and not yet started,
                 \* handlers woken by a message and not yet run
    tasks,       \* background tasks awaiting the database
    log,         \* log[s]: messages broadcast on the dispatcher for session s
    dbSess,      \* voice_usage_sessions rows, by session_id
    dbDaily,     \* voice_usage_daily.duration_ms of the user, by day
    dbMonthly,   \* voice_usage_monthly.duration_ms of the user
    limitEvents, \* number of voice_limit_events rows
    nchunks,     \* audio chunks delivered so far
    calls,       \* calls[c]: what was done with chunk c
    landed,      \* landed[s][d]: session-row duration_ms added on day d
    base,        \* the user's daily and monthly usage rows at the start
    verdict,     \* what the two limit evaluations returned for tr[1]'s counters
    turn,        \* FINAL_TRANSCRIPTION_CREATED messages published so far
    llm,         \* LargeLanguageModel.run_async: its subscription and completion
    dg,          \* texts the Deepgram connection was sent: their oldest tokens
    abuse_on,    \* VOICE_ABUSE_DETECTION_ENABLED
    clock,       \* datetime.utcnow(), in seconds
    starts,      \* started_at of the user's voice_usage_sessions rows
    det,         \* det[s]: the VoiceAbuseDetector of session s's tracker
    acts,        \* track_activity tasks created and not yet finished, oldest first
    abuseEvents, \* voice_abuse_events rows, oldest first
    messages,    \* LLM.messages: the roles of its records
    sup,         \* sup[s]: websocket_endpoint of session s and its socket
    drv,         \* LargeLanguageModel: its subscription, process() and stream
    mx,          \* the TextToSpeechMinimax client, its sockets and its tasks
    el,          \* the TextToSpeechElevenLabs client, its socket and its listener
    reset_at,    \* the chunks delivered when reset_user_usage ran, -1 before
    vh,          \* the VoiceUsageHandler of a session, its clock and its broadcasts
    fin,         \* the end of one session: its row, its two end_session calls
    cn           \* a TTS client's connection and its connect_websocket calls

abuseVars == <<abuse_on, clock, starts, det, acts, abuseEvents>>
\* the components that are driven on their own
lateVars == <<vh, fin, cn>>
sessVars == <<messages, sup, drv, mx, el, reset_at, lateVars>>
\* the trackers, the TTS clients, the repository and the ready queue
pipeVars == <<enabled, today, tr, phase, tts, ready, tasks, dbSess, dbDaily,
              dbMonthly, limitEvents, nchunks, calls, landed, base, verdict,
              llm, dg>>

vars == <<enabled, today, tr, phase, tts, ready, tasks, log, dbSess,
          dbDaily, dbMonthly, limitEvents, nchunks, calls, landed, base,
          verdict, turn, llm, dg, abuseVars, sessVars>>

\* ------------------------------------------------------------ pure functions

\* base64.b64encode(data): length and padding of the encoded text
b64encode(n) == [len |-> 4 * ((n + 2) \div 3), pad |-> (3 - (n % 3)) % 3]

\* len(base64.b64decode(audio_data))
b64decode_len(blob) == 3 * (blob.len \div 4) - blob.pad

\* variant of duration_ms that rounds up to whole milliseconds
duration_ms_RoundedUp(blob) == (b64decode_len(blob) + 31) \div 32

\* track_audio_chunk: duration_ms = bytes_count // AUDIO_BYTES_PER_MS
duration_ms(blob) ==
    IF AUDIO_BYTES_PER_MS > 0 THEN b64decode_len(blob) \div AUDIO_BYTES_PER_MS
    ELSE b64decode_len(blob) \div 32

\* variant of _check_limits that fires only above the limit
Tracker_check_limits_Strict(t) ==
    IF t.session_duration_ms > session_limit_ms THEN "session"
    ELSE IF t.daily_duration_ms > daily_limit_ms THEN "daily"
    ELSE IF t.monthly_duration_ms > monthly_limit_ms THEN "monthly"
    ELSE "none"

\* VoiceUsageTracker._check_limits
Tracker_check_limits(t) ==
    IF t.session_duration_ms >= session_limit_ms THEN "session"
    ELSE IF t.daily_duration_ms >= daily_limit_ms THEN "daily"
    ELSE IF t.monthly_duration_ms >= monthly_limit_ms THEN "monthly"
    ELSE "none"

\* variant of check_limits that fires only above the limit
Summary_check_limits_Strict(sm) ==
    IF sm.session_duration_ms > sm.session_limit_ms THEN "session"
    ELSE IF sm.daily_duration_ms > sm.daily_limit_ms THEN "daily"
    ELSE IF sm.monthly_duration_ms > sm.monthly_limit_ms THEN "monthly"
    ELSE "none"

\* UserVoiceUsageSummary.check_limits
Summary_check_limits(sm) ==
    IF sm.session_duration_ms >= sm.session_limit_ms THEN "session"
    ELSE IF sm.daily_duration_ms >= sm.daily_limit_ms THEN "daily"
    ELSE IF sm.monthly_duration_ms >= sm.monthly_limit_ms THEN "monthly"
    ELSE "none"

\* VoiceUsageTracker.is_voice_enabled
is_voice_enabled(s) == enabled /\ tr[s].voice_enabled

\* ------------------------------------------------------------------ messages
\* type, an argument, the chunk or turn it belongs to; k numbers the texts of
\* a turn
Msg(type, arg, c) == [type |-> type, arg |-> arg, c |-> c, k |-> 0]

\* Dispatcher.broadcast(guid, message): publishes without suspending the caller
Broadcast(lg, s, ms) == [lg EXCEPT ![s] = @ \o ms]

NewTracker ==
    [voice_enabled |-> TRUE, limit_reached |-> "none",
     session_duration_ms |-> 0, daily_duration_ms |-> 0, monthly_duration_ms |-> 0,
     session_warning_sent |-> FALSE, daily_warning_sent |-> FALSE,
     monthly_warning_sent |-> FALSE]

\* TextToSpeechDeepgram.__init__: an empty word buffer, no flush timer
EmptyBuffer == [words |-> 0, chars |-> 0, stop |-> FALSE, at |-> 0]
NewTts(voice_tracker) ==
    [voice_tracker |-> voice_tracker, is_interrupted |-> FALSE,
     word_buffer |-> EmptyBuffer, buffer_timer |-> FALSE]

\* no limit evaluation made yet
NoVerdict == [applied |-> FALSE, tracker |-> "none", summary |-> "none"]

NoRow == [exists |-> FALSE, is_active |-> FALSE, duration_ms |-> 0,
          chunk_count |-> 0, limit_reached |-> "none"]

\* the three counters of a tracker
Usage(t) == [session |-> t.session_duration_ms, daily |-> t.daily_duration_ms,
             monthly |-> t.monthly_duration_ms]

\* calls[c]: the session and size of chunk c, the number of transcriptions
\* published when the oldest token of its text was produced, whether the TTS
\* client forwarded it, and of its track_audio_chunk call: whether it ran
\* _add_usage, the duration it added, the counters when it returned and what
\* it returned
NoCall == [s |-> 0, bytes |-> 0, at |-> 0, forwarded |-> FALSE,
           entered |-> FALSE, dur |-> 0,
           after |-> [session |-> 0, daily |-> 0, monthly |-> 0], ret |-> "none"]

\* an entry of the ready queue: a task with its argument, or a handler of
\* session s with the data of the message that woke it
Ready(kind, c, s, data) == [kind |-> kind, c |-> c, s |-> s, data |-> data]

\* a background task: _update_database(ms) or _record_limit_reached(limit)
\* ret: what update_session_usage returned to it
NoReturn == [outcome |-> "none", row |-> NoRow]
Task(kind, c, s, ms, pc, limit) ==
    [kind |-> kind, c |-> c, s |-> s, ms |-> ms, pc |-> pc, limit |-> limit,
     ret |-> NoReturn]

RECURSIVE SumOver(_, _)
\* sum of f[x] over the finite set S
SumOver(f, S) ==
    IF S = {} THEN 0
    ELSE LET x == CHOOSE y \in S : TRUE IN f[x] + SumOver(f, S \ {x})

\* ------------------------------------------------------------ initial state
\* U: the (daily, monthly) usage the user may start with; E: the values
\* VOICE_USAGE_ENABLED may have. websocket_endpoint builds a tracker, and hands
\* it to the TTS client, only when VOICE_USAGE_ENABLED.
InitCommon(U, E) ==
    /\ enabled \in E
    /\ today = 0
    /\ tr = [s \in Sessions |-> NewTracker]
    /\ phase = [s \in Sessions |-> "new"]
    /\ tts = [s \in Sessions |-> NewTts(enabled)]
    /\ ready = <<>>
    /\ tasks = {}
    /\ log = [s \in Sessions |-> <<>>]
    /\ dbSess = [s \in Sessions |-> NoRow]
    /\ \E u \in U :
          /\ dbDaily = [d \in Days |-> IF d = 0 THEN u[1] ELSE 0]
          /\ dbMonthly = u[2]
    /\ limitEvents = 0
    /\ nchunks = 0
    /\ calls = [c \in Chunks |-> NoCall]
    /\ landed = [s \in Sessions |-> [d \in Days |-> 0]]
    /\ base = [daily |-> dbDaily, monthly |-> dbMonthly]
    /\ verdict = NoVerdict
    /\ turn = 0
    /\ llm = [inbox |-> <<>>, busy |-> FALSE, streamed |-> 0]
    /\ dg = {}

\* VoiceAbuseDetector.__init__, before initialize() has built one: exists is
\* false. nth, outcome, crossings and lost are records of what happened: the
\* sessions of the user started in the window when this one had its row, how
\* the repository answered check_on_connection, how many track_activity tasks
\* were created, how often the continuous counter reached the threshold from
\* below, how many event writes failed.
NoDetector ==
    [exists |-> FALSE, last_activity |-> -1, total_continuous_ms |-> 0,
     nth |-> 0, outcome |-> "ok", created |-> 0, crossings |-> 0, lost |-> 0]

\* websocket_endpoint before it has built the session's components, the
\* client's socket connected. stage: "init", "built", "crashed" (an exception
\* left the endpoint before its try), "running" (awaiting asyncio.wait),
\* "returned" (in its finally). subscribed_at: the number of messages
\* published when the session's tasks subscribed; put_at: the last message
\* websocket_put_voice_disabled has taken; frames: the voice_disabled frames
\* sent to the client; dropped: the messages send() returned without sending;
\* failed: a task of the socket manager has raised; cancelled: the endpoint
\* has cancelled its tasks.
NewEndpoint ==
    [stage |-> "init", socket |-> "open", subscribed_at |-> -1, put_at |-> -1,
     frames |-> 0, dropped |-> 0, failed |-> FALSE,
     check_connection |-> "running", cancelled |-> FALSE]

\* LargeLanguageModel.__init__ and the start of run_async: subscribed, no
\* transcription waiting, no completion. cur is the transcription process()
\* is working on, words the list of create_completion, llm_words the list of
\* process(); raw[t] and ends[t] record what the provider streamed for
\* transcription t and how the stream ended.
NewDriver ==
    [inbox |-> <<>>, pc |-> "idle", cur |-> 0, words |-> <<>>, llm_words |-> <<>>,
     raw |-> [t \in 1..MaxTurns |-> <<>>],
     ends |-> [t \in 1..MaxTurns |-> "none"]]

\* TextToSpeechMinimax.__init__. websocket: the socket self.websocket refers
\* to (0: None); opened: the sockets websockets.connect has returned; open:
\* those of them neither side has closed; listeners: the _listen_for_audio
\* tasks running; event: task_started_event is set; unconfirmed, rendering:
\* the task_start and task_continue frames on the current socket the provider
\* has not answered. word_buffer holds the tokens buffered, their words and
\* how the text ends. flush is the _flush_buffer call suspended in
\* _start_task, if any. text_inbox, flush_inbox, clear_inbox: the messages
\* waiting in the three subscriptions; th, tf, tc: the three handlers, "idle"
\* at their async for, suspended or "dead"; flush_turn: the turn of the
\* TTS_FLUSH handle_tts_flush is working on. turn, streamed, done: the turn
\* the LLM is in, the tokens it has published in it, whether it has published
\* its TTS_FLUSH. flush.woken: the event the call waits for was set. wire: the frames sent to the
\* provider, oldest first; buffered: the tokens appended to word_buffer and
\* not cleared from it by handle_clear_buffer;
\* flushed[t]: what was buffered, sent and still in word_buffer when
\* handle_tts_flush had handled the TTS_FLUSH of turn t.
NoFlush == [by |-> "none", toks |-> {}, turn |-> 0, sock |-> 0, woken |-> FALSE]
EmptyWords == [toks |-> {}, words |-> 0, end |-> "none", turn |-> 0]
NotFlushed == [handled |-> FALSE, before |-> {}, sent |-> {}, left |-> {}]
NewMinimax ==
    [run |-> "connect", is_connected |-> FALSE, is_task_started |-> FALSE,
     is_processing |-> FALSE, event |-> FALSE, send_buffer_event |-> TRUE,
     websocket |-> 0, opened |-> 0, open |-> {}, listeners |-> 0,
     unconfirmed |-> 0, rendering |-> 0,
     word_buffer |-> EmptyWords, buffer_timer |-> FALSE, flush |-> NoFlush,
     text_inbox |-> <<>>, flush_inbox |-> <<>>, clear_inbox |-> 0,
     th |-> "idle", tf |-> "idle", tc |-> "idle",
     flush_turn |-> 0, turn |-> 0, streamed |-> 0, done |-> TRUE,
     wire |-> <<>>, buffered |-> {},
     flushed |-> [t \in 1..MinimaxTurns |-> NotFlushed],
     stopped_by |-> "none"]

\* TextToSpeechElevenLabs.__init__ and the start of run_async: no socket, not
\* connected, no listener. websocket, opened, open, listeners: as for the
\* Minimax client; texts: the texts sent on the current socket whose audio is
\* not complete; ended: the end signal of flush_and_end was sent on it; sent,
\* audio, finals: the texts handed to send_text, the audio messages broadcast
\* and the isFinal messages read; stopped_by: the message or exception that
\* ended a listener last.
NewElevenLabs ==
    [run |-> "connect", is_connected |-> FALSE, websocket |-> 0, opened |-> 0,
     open |-> {}, listeners |-> 0, texts |-> 0, ended |-> FALSE, sent |-> 0,
     audio |-> 0, finals |-> 0, stopped_by |-> "none"]

\* no _add_usage call made yet; of a call: the seconds, the counters and
\* is_voice_disabled at its start, the broadcasts made before it and up to
\* its end, how it ended ("pending", "returned", "raised"), and the counters,
\* is_voice_disabled and limit_reached_type it left
NoUsageCall ==
    [s |-> 0, before |-> <<0, 0, 0>>, disabled |-> FALSE, from |-> 0, to |-> 0,
     outcome |-> "none", after |-> <<0, 0, 0>>, disabled_after |-> FALSE,
     type_after |-> "none"]

\* VoiceUsageHandler.__init__, before one is built (run = "none"). now is
\* time.time() in seconds; speech_start_time is -1 for None; monitored_at is
\* the time of monitor_continuous_speech's last pass; pc is "adding" while
\* _add_usage waits for the repository; sent are the messages broadcast;
\* direct counts the calls of _add_usage made on the object itself.
NewHandler ==
    [run |-> "none", repository |-> "none",
     session_voice_seconds |-> 0, daily_seconds |-> 0, monthly_seconds |-> 0,
     speech_start_time |-> -1, is_speaking |-> FALSE, speech_segments |-> 0,
     is_voice_disabled |-> FALSE, limit_reached_type |-> "none",
     abuse_detected |-> FALSE, abuse_type |-> "none",
     now |-> 1, monitored_at |-> 0, pc |-> "idle", sent |-> <<>>,
     call |-> NoUsageCall, direct |-> 0]

\* The callers of VoiceUsageTracker.end_session: the finally of
\* VoiceUsageInterceptor.run_async and the finally of websocket_endpoint.
EndCallers == {"interceptor", "endpoint"}

\* an end_session call not made yet. pc: "none", "get_session", "record",
\* "end" (the awaits it is at), "done"; session_duration, session: what
\* check_session_end computed and read
NoEndCall == [pc |-> "none", session_duration |-> 0, session |-> NoRow]

\* One session before its tracker is initialized. enabled, detector: the
\* tracker's enabled and whether it has an enabled abuse detector; elapsed:
\* seconds since the detector's session_start; row: the session's row;
\* stamps: the times ended_at was set on it; events: the
\* long_session_no_breaks rows recorded for it
NewTeardown ==
    [stage |-> "new", enabled |-> FALSE, detector |-> FALSE, elapsed |-> 0,
     row |-> NoRow, stamps |-> 0, events |-> 0,
     call |-> [c \in EndCallers |-> NoEndCall]]

\* The tasks of a TTS client that call connect_websocket: the one sending a
\* flushed text (send_text from _flush_buffer, and run_async's first
\* connection) and handle_clear_buffer (send_text("", flush=True)).
ConnectCallers == {"flush", "clear"}

\* a connect_websocket call not made yet. pc: "idle", "connecting" (awaiting
\* websockets.connect and the acknowledgement), "sleeping" (the two seconds
\* before the retry), "returned"; attempts, started: the connections the call
\* tried and the listeners it created; result: what it returned;
\* connected: is_connected when it returned
NoConnectCall ==
    [pc |-> "idle", attempts |-> 0, started |-> 0, result |-> "none",
     connected |-> FALSE]

\* A TTS client after __init__ (kind: "none" before it is built). open: the
\* socket in self.websocket is open at the provider; opened: sockets opened;
\* listeners: _listen_for_audio tasks alive; calls: connect_websocket calls
\* made
NewConnection ==
    [kind |-> "none", is_connected |-> FALSE, connection_attempts |-> 0,
     open |-> FALSE, opened |-> 0, listeners |-> 0, calls |-> 0,
     call |-> [c \in ConnectCallers |-> NoConnectCall]]

\* A: the values VOICE_ABUSE_DETECTION_ENABLED may have; P: the started_at
\* the user's earlier session rows may have.
InitExt(A, P) ==
    /\ abuse_on \in A
    /\ clock = 0
    /\ starts \in P
    /\ det = [s \in Sessions |-> NoDetector]
    /\ acts = <<>>
    /\ abuseEvents = <<>>
    /\ messages = <<"system">>
    /\ sup = [s \in Sessions |-> NewEndpoint]
    /\ drv = NewDriver
    /\ mx = NewMinimax
    /\ el = NewElevenLabs
    /\ reset_at = -1
    /\ vh = NewHandler
    /\ fin = NewTeardown
    /\ cn = NewConnection

Init == InitCommon(InitUsage, {TRUE}) /\ InitExt({FALSE}, {<<>>})

\* ------------------------------------------------- VoiceUsageRepository
\* create_session: insert_one of a fresh active row
create_session(db, s) ==
    [db EXCEPT ![s] = [exists |-> TRUE, is_active |-> TRUE, duration_ms |-> 0,
                       chunk_count |-> 0, limit_reached |-> "none"]]

\* get_user_usage_summary(user_id, session_id) on the rows db
get_user_usage_summary(db, s) ==
    LET sm == [session_duration_ms |->
                  IF db[s].exists /\ db[s].is_active THEN db[s].duration_ms ELSE 0,
               daily_duration_ms |-> dbDaily[today],
               monthly_duration_ms |-> dbMonthly,
               session_limit_ms |-> VOICE_LIMIT_SESSION_MINUTES * 60 * 1000,
               daily_limit_ms |-> VOICE_LIMIT_DAILY_MINUTES * 60 * 1000,
               monthly_limit_ms |-> VOICE_LIMIT_MONTHLY_MINUTES * 60 * 1000]
        lim == Summary_check_limits(sm)
    IN  [session_duration_ms |-> sm.session_duration_ms,
         daily_duration_ms |-> sm.daily_duration_ms,
         monthly_duration_ms |-> sm.monthly_duration_ms,
         limit_reached |-> lim, voice_enabled |-> (lim = "none")]

\* variant of update_session_usage whose filter is {session_id} alone
update_session_usage_AnyState(db, s, ms) ==
    IF db[s].exists
    THEN LET rows == [db EXCEPT ![s].duration_ms = @ + ms, ![s].chunk_count = @ + 1]
         IN  [rows |-> rows, result |-> [outcome |-> "row", row |-> rows[s]]]
    ELSE [rows |-> db, result |-> [outcome |-> "None", row |-> NoRow]]

\* update_session_usage: find_one_and_update on {session_id, is_active: True}
\* with $inc of duration_ms and chunk_count, returning the document after the
\* update, or None when no document matched
update_session_usage(db, s, ms) ==
    IF db[s].exists /\ db[s].is_active
    THEN LET rows == [db EXCEPT ![s].duration_ms = @ + ms, ![s].chunk_count = @ + 1]
         IN  [rows |-> rows, result |-> [outcome |-> "row", row |-> rows[s]]]
    ELSE [rows |-> db, result |-> [outcome |-> "None", row |-> NoRow]]

\* end_session: update_one on {session_id, is_active: True}
repo_end_session(db, s) ==
    IF db[s].exists /\ db[s].is_active
    THEN [db EXCEPT ![s].is_active = FALSE]
    ELSE db

\* mark_session_limit_reached: update_one on {session_id}
mark_session_limit_reached(db, s, kind) ==
    IF db[s].exists THEN [db EXCEPT ![s].limit_reached = kind] ELSE db

\* --------------------------------------------------- VoiceUsageTracker
\* variant of _handle_limit_reached that announces VOICE_DISABLED first
LimitMessages_DisabledFirst(kind, c) ==
    <<Msg("VOICE_DISABLED", kind, c), Msg("VOICE_LIMIT_REACHED", kind, c)>>

\* _handle_limit_reached: the two messages it broadcasts, in order
LimitMessages(kind, c) ==
    <<Msg("VOICE_LIMIT_REACHED", kind, c), Msg("VOICE_DISABLED", kind, c)>>

\* get_recent_session_count(user_id, window_seconds) at time now: the rows
\* with started_at >= now - window_seconds
get_recent_session_count(rows, now, window_seconds) ==
    Cardinality({i \in DOMAIN rows : rows[i] >= now - window_seconds})

\* How the repository answers during check_on_connection: it works, the
\* count raises, or the insert of the abuse event raises.
RepoOutcomes == {"ok", "count_fails", "record_fails"}

\* a voice_abuse_events row: its type, its session, and of its details the
\* session_count and window_seconds, or the continuous_duration_ms
AbuseEvent(event_type, s, session_count, window_seconds, continuous_duration_ms) ==
    [event_type |-> event_type, s |-> s, session_count |-> session_count,
     window_seconds |-> window_seconds,
     continuous_duration_ms |-> continuous_duration_ms]

\* what check_on_connection does: whether it raises, what it returns and
\* the rows it records
Checked(raised, ret, events) == [raised |-> raised, ret |-> ret, events |-> events]

\* variant of check_on_connection without its try/except
check_on_connection_Unprotected(s, recent_sessions, outcome) ==
    IF outcome = "count_fails" THEN Checked(TRUE, TRUE, <<>>)
    ELSE IF recent_sessions >= VOICE_ABUSE_RECONNECT_THRESHOLD
    THEN Checked(FALSE, FALSE,
            IF outcome = "record_fails" THEN <<>>
            ELSE <<AbuseEvent("rapid_reconnection", s, recent_sessions,
                              VOICE_ABUSE_RECONNECT_WINDOW_SECONDS, 0)>>)
    ELSE Checked(FALSE, TRUE, <<>>)

\* VoiceAbuseDetector.check_on_connection, given the count the repository
\* returned: an error of the count is caught and allows, _record_abuse_event
\* catches an error of the insert
check_on_connection(s, recent_sessions, outcome) ==
    IF outcome = "count_fails" THEN Checked(FALSE, TRUE, <<>>)
    ELSE IF recent_sessions >= VOICE_ABUSE_RECONNECT_THRESHOLD
    THEN Checked(FALSE, FALSE,
            IF outcome = "record_fails" THEN <<>>
            ELSE <<AbuseEvent("rapid_reconnection", s, recent_sessions,
                              VOICE_ABUSE_RECONNECT_WINDOW_SECONDS, 0)>>)
    ELSE Checked(FALSE, TRUE, <<>>)

\* initialize(), awaited by websocket_endpoint before the session's tasks
\* start: the abuse check of the connection, then the session row, then the
\* usage summary. Its except branch leaves the tracker as constructed.
Initialize(s) ==
    /\ phase[s] = "new"
    /\ phase' = [phase EXCEPT ![s] = "running"]
    /\ IF ~enabled
       THEN UNCHANGED <<tr, dbSess, log, tasks, starts, det, abuseEvents>>
       ELSE \E outcome \in RepoOutcomes :
            LET chk == IF abuse_on
                       THEN check_on_connection(s,
                                get_recent_session_count(starts, clock,
                                    VOICE_ABUSE_RECONNECT_WINDOW_SECONDS), outcome)
                       ELSE Checked(FALSE, TRUE, <<>>)
                rows == Append(starts, clock)
                db1 == create_session(dbSess, s)
                sm == get_user_usage_summary(db1, s)
                d1 == [NoDetector EXCEPT !.exists = abuse_on,
                                         !.outcome = IF abuse_on THEN outcome ELSE "ok"]
            IN  /\ abuseEvents' = abuseEvents \o chk.events
                /\ IF chk.raised
                   THEN /\ det' = [det EXCEPT ![s] = d1]
                        /\ UNCHANGED <<tr, dbSess, log, tasks, starts>>
                   ELSE /\ det' = [det EXCEPT ![s] = [d1 EXCEPT !.nth =
                                      get_recent_session_count(rows, clock,
                                          VOICE_ABUSE_RECONNECT_WINDOW_SECONDS)]]
                        /\ starts' = rows
                        /\ dbSess' = db1
                        /\ tr' = [tr EXCEPT ![s].session_duration_ms = sm.session_duration_ms,
                                            ![s].daily_duration_ms = sm.daily_duration_ms,
                                            ![s].monthly_duration_ms = sm.monthly_duration_ms,
                                            ![s].voice_enabled = sm.voice_enabled,
                                            ![s].limit_reached = sm.limit_reached]
                        /\ IF sm.limit_reached # "none"
                           THEN /\ log' = Broadcast(log, s, LimitMessages(sm.limit_reached, 0))
                                /\ tasks' = tasks \cup
                                       {Task("record", 0, s, 0, "start", sm.limit_reached)}
                           ELSE UNCHANGED <<log, tasks>>
    /\ UNCHANGED <<abuse_on, clock, acts, sessVars, enabled, today, tts, ready,
                   dbDaily, dbMonthly, limitEvents, nchunks, calls, landed, base,
                   verdict, turn, llm, dg>>

\* _add_usage: the counters after adding duration_ms
AddCounters(t, d) ==
    [t EXCEPT !.session_duration_ms = @ + d,
              !.daily_duration_ms = @ + d,
              !.monthly_duration_ms = @ + d]

\* _check_warnings: the periods whose warning the call sends, in code order
NewWarnings(t) ==
    (IF ~t.session_warning_sent /\ t.session_duration_ms >= session_warning_ms
     THEN <<"session">> ELSE <<>>)
    \o (IF ~t.daily_warning_sent /\ t.daily_duration_ms >= daily_warning_ms
        THEN <<"daily">> ELSE <<>>)
    \o (IF ~t.monthly_warning_sent /\ t.monthly_duration_ms >= monthly_warning_ms
        THEN <<"monthly">> ELSE <<>>)

\* variant of _check_warnings that never sets a flag
MarkWarnings_Forgetful(t) == t

\* _check_warnings: the warning flags after the call
MarkWarnings(t) ==
    [t EXCEPT !.session_warning_sent = @ \/ t.session_duration_ms >= session_warning_ms,
              !.daily_warning_sent = @ \/ t.daily_duration_ms >= daily_warning_ms,
              !.monthly_warning_sent = @ \/ t.monthly_duration_ms >= monthly_warning_ms]

\* _send_warning for each period of W, in order
WarningMessages(W, c) == [i \in 1..Len(W) |-> Msg("VOICE_USAGE_WARNING", W[i], c)]

\* a track_activity(d) task of session s's detector: created, or awaiting the
\* insert of the event it built at time now with the counter at total
Activity(s, d) == [s |-> s, d |-> d, pc |-> "created", now |-> 0, total |-> 0]

\* _add_usage(d) for chunk c of session s, from taking the lock to the return:
\* the lock is free when it is taken and no await in it suspends the task.
\* cl is the record of calls to extend.
add_usage(s, c, d, cl) ==
    LET t1 == AddCounters(tr[s], d)
        W == NewWarnings(t1)
        t2 == MarkWarnings(t1)
        limit_type == Tracker_check_limits(t2)
    IN  IF limit_type # "none"
        THEN /\ tr' = [tr EXCEPT ![s] = [t2 EXCEPT !.voice_enabled = FALSE,
                                                  !.limit_reached = limit_type]]
             /\ log' = Broadcast(log, s,
                          WarningMessages(W, c) \o LimitMessages(limit_type, c))
             /\ tasks' = tasks \cup {Task("record", c, s, 0, "start", limit_type)}
             /\ calls' = [cl EXCEPT ![c].entered = TRUE, ![c].dur = d,
                                    ![c].after = Usage(t2), ![c].ret = "deny"]
             /\ UNCHANGED acts
        ELSE /\ tr' = [tr EXCEPT ![s] = t2]
             /\ log' = Broadcast(log, s, WarningMessages(W, c))
             /\ tasks' = tasks \cup {Task("dbwrite", c, s, d, "session", "none")}
             /\ calls' = [cl EXCEPT ![c].entered = TRUE, ![c].dur = d,
                                    ![c].after = Usage(t2), ![c].ret = "allow"]
             /\ acts' = IF det[s].exists THEN Append(acts, Activity(s, d)) ELSE acts

\* variant of track_audio_chunk without the check of self.voice_enabled
track_audio_chunk_NoVoiceCheck(s, c, blob, cl) ==
    IF ~enabled
    THEN /\ calls' = [cl EXCEPT ![c].ret = "allow", ![c].after = Usage(tr[s])]
         /\ UNCHANGED <<tr, log, tasks, acts>>
    ELSE add_usage(s, c, duration_ms(blob), cl)

\* variant of track_audio_chunk without the check of self.enabled
track_audio_chunk_Unguarded(s, c, blob, cl) ==
    IF ~tr[s].voice_enabled
    THEN /\ calls' = [cl EXCEPT ![c].ret = "deny", ![c].after = Usage(tr[s])]
         /\ UNCHANGED <<tr, log, tasks, acts>>
    ELSE add_usage(s, c, duration_ms(blob), cl)

\* track_audio_chunk(audio_data) for chunk c of session s, start to return
track_audio_chunk(s, c, blob, cl) ==
    IF ~enabled
    THEN /\ calls' = [cl EXCEPT ![c].ret = "allow", ![c].after = Usage(tr[s])]
         /\ UNCHANGED <<tr, log, tasks, acts>>
    ELSE IF ~tr[s].voice_enabled
    THEN /\ calls' = [cl EXCEPT ![c].ret = "deny", ![c].after = Usage(tr[s])]
         /\ UNCHANGED <<tr, log, tasks, acts>>
    ELSE add_usage(s, c, duration_ms(blob), cl)

\* the loop starts the track_audio_chunk task _on_audio_data created
TrackTask ==
    /\ ready # <<>> /\ Head(ready).kind = "track"
    /\ track_audio_chunk(Head(ready).s, Head(ready).c, Head(ready).data, calls)
    /\ ready' = Tail(ready)
    /\ UNCHANGED <<abuse_on, clock, starts, det, abuseEvents, sessVars,
                   enabled, today, phase, tts, dbSess, dbDaily, dbMonthly,
                   limitEvents, nchunks, landed, base,
                   verdict, turn, llm, dg>>

\* _update_database: await repository.update_session_usage(...)
DbSession(t) ==
    /\ t \in tasks /\ t.kind = "dbwrite" /\ t.pc = "session"
    /\ dbSess' = update_session_usage(dbSess, t.s, t.ms).rows
    /\ landed' = IF dbSess[t.s].exists /\ dbSess[t.s].is_active
                 THEN [landed EXCEPT ![t.s][today] = @ + t.ms]
                 ELSE landed
    /\ tasks' = (tasks \ {t}) \cup
                   {[t EXCEPT !.pc = "daily",
                              !.ret = update_session_usage(dbSess, t.s, t.ms).result]}
    /\ UNCHANGED <<abuseVars, sessVars, enabled, today, tr, phase, tts, ready, log, dbDaily,
                   dbMonthly, limitEvents, nchunks, calls, base,
                   verdict, turn, llm, dg>>

\* _update_database: await repository.update_daily_usage(...), an upsert on
\* (user_id, date of utcnow())
DbDaily(t) ==
    /\ t \in tasks /\ t.kind = "dbwrite" /\ t.pc = "daily"
    /\ dbDaily' = [dbDaily EXCEPT ![today] = @ + t.ms]
    /\ tasks' = (tasks \ {t}) \cup {[t EXCEPT !.pc = "monthly"]}
    /\ UNCHANGED <<abuseVars, sessVars, enabled, today, tr, phase, tts, ready, log, dbSess,
                   dbMonthly, limitEvents, nchunks, calls, landed, base,
                   verdict, turn, llm, dg>>

\* _update_database: await repository.update_monthly_usage(...)
DbMonthly(t) ==
    /\ t \in tasks /\ t.kind = "dbwrite" /\ t.pc = "monthly"
    /\ dbMonthly' = dbMonthly + t.ms
    /\ tasks' = tasks \ {t}
    /\ UNCHANGED <<abuseVars, sessVars, enabled, today, tr, phase, tts, ready, log, dbSess,
                   dbDaily, limitEvents, nchunks, calls, landed, base,
                   verdict, turn, llm, dg>>

\* _record_limit_reached: record_limit_event, mark_session_limit_reached
RecordLimit(t) ==
    /\ t \in tasks /\ t.kind = "record"
    /\ limitEvents' = limitEvents + 1
    /\ dbSess' = mark_session_limit_reached(dbSess, t.s, t.limit)
    /\ tasks' = tasks \ {t}
    /\ UNCHANGED <<abuseVars, sessVars, enabled, today, tr, phase, tts, ready, log, dbDaily,
                   dbMonthly, nchunks, calls, landed, base,
                   verdict, turn, llm, dg>>

\* end_session(), from websocket_endpoint's finally, then CALL_ENDED
EndSession(s) ==
    /\ phase[s] = "running"
    /\ phase' = [phase EXCEPT ![s] = "ended"]
    /\ dbSess' = IF enabled THEN repo_end_session(dbSess, s) ELSE dbSess
    /\ log' = Broadcast(log, s, <<Msg("CALL_ENDED", "", 0)>>)
    /\ UNCHANGED <<abuseVars, sessVars, enabled, today, tr, tts, ready, tasks, dbDaily,
                   dbMonthly, limitEvents, nchunks, calls, landed, base,
                   verdict, turn, llm, dg>>

\* the UTC date changes
Midnight ==
    /\ today < MaxDay
    /\ today' = today + 1
    /\ UNCHANGED <<abuseVars, sessVars, enabled, tr, phase, tts, ready, tasks, log, dbSess,
                   dbDaily, dbMonthly, limitEvents, nchunks, calls, landed, base,
                   verdict, turn, llm, dg>>

\* ---------------------------------------------------- VoiceAbuseDetector
\* the sequence q without its i-th element
RemoveAt(q, i) == SubSeq(q, 1, i - 1) \o SubSeq(q, i + 1, Len(q))

\* track_activity: the activity continues the last one (less than 5 seconds
\* after it)
Continuous(D, now) == D.last_activity >= 0 /\ now - D.last_activity < 5

\* The loop starts the oldest track_activity task not yet started: it runs to
\* its end, or to the await of the event's insert when the continuous counter
\* has reached the threshold.
StartActivity ==
    \E i \in DOMAIN acts :
       /\ acts[i].pc = "created"
       /\ \A j \in 1..(i - 1) : acts[j].pc # "created"
       /\ LET a == acts[i]
              D == det[a.s]
              total == D.total_continuous_ms + a.d
          IN  IF Continuous(D, clock)
              THEN IF total >= continuous_threshold_ms
                   THEN /\ det' = [det EXCEPT ![a.s].total_continuous_ms = total,
                                     ![a.s].crossings =
                                        IF D.total_continuous_ms < continuous_threshold_ms
                                        THEN @ + 1 ELSE @]
                        /\ acts' = [acts EXCEPT ![i].pc = "write", ![i].now = clock,
                                                ![i].total = total]
                   ELSE /\ det' = [det EXCEPT ![a.s].total_continuous_ms = total,
                                              ![a.s].last_activity = clock]
                        /\ acts' = RemoveAt(acts, i)
              ELSE /\ det' = [det EXCEPT ![a.s].total_continuous_ms = a.d,
                                         ![a.s].last_activity = clock,
                                         ![a.s].crossings =
                                            IF a.d >= continuous_threshold_ms
                                            THEN @ + 1 ELSE @]
                   /\ acts' = RemoveAt(acts, i)
       /\ UNCHANGED <<abuse_on, clock, starts, abuseEvents, sessVars,
                      enabled, today, tr, phase, tts, ready, tasks, log, dbSess,
                      dbDaily, dbMonthly, limitEvents, nchunks, calls, landed, base,
                      verdict, turn, llm, dg>>

\* A track_activity task resumes after the insert of its event (ok: the insert
\* worked): it resets the counter, sets last_activity to the time it started
\* at, and ends.
FinishActivity(i, ok) ==
    /\ i \in DOMAIN acts /\ acts[i].pc = "write"
    /\ LET a == acts[i]
       IN  /\ abuseEvents' =
                IF ok THEN Append(abuseEvents,
                              AbuseEvent("excessive_continuous_use", a.s, 0, 0, a.total))
                ELSE abuseEvents
           /\ det' = [det EXCEPT ![a.s].total_continuous_ms = 0,
                                 ![a.s].last_activity = a.now,
                                 ![a.s].lost = IF ok THEN @ ELSE @ + 1]
           /\ acts' = RemoveAt(acts, i)
    /\ UNCHANGED <<abuse_on, clock, starts, sessVars,
                   enabled, today, tr, phase, tts, ready, tasks, log, dbSess,
                   dbDaily, dbMonthly, limitEvents, nchunks, calls, landed, base,
                   verdict, turn, llm, dg>>

\* dt seconds pass
Tick(dt) ==
    /\ clock + dt <= MaxSeconds
    /\ clock' = clock + dt
    /\ UNCHANGED <<abuse_on, starts, det, acts, abuseEvents, sessVars,
                   enabled, today, tr, phase, tts, ready, tasks, log, dbSess,
                   dbDaily, dbMonthly, limitEvents, nchunks, calls, landed, base,
                   verdict, turn, llm, dg>>

\* ------------------------------------------------ TextToSpeechDeepgram
\* _on_audio_data(data) with len(data) = n, the provider's audio callback,
\* run on the session's event loop; at tells which text the audio renders
OnAudioData(s, n, at) ==
    /\ phase[s] = "running"
    /\ nchunks < MaxChunks
    /\ nchunks' = nchunks + 1
    /\ LET c == nchunks + 1
           seen == [calls EXCEPT ![c].s = s, ![c].bytes = n, ![c].at = at]
           bcast == Ready("bcast", c, s, b64encode(n))
       IN
       IF tts[s].is_interrupted
       THEN /\ calls' = seen
            /\ UNCHANGED <<tts, ready>>
       ELSE IF tts[s].voice_tracker /\ ~is_voice_enabled(s)
       THEN /\ tts' = [tts EXCEPT ![s].is_interrupted = TRUE]
            /\ calls' = seen
            /\ UNCHANGED ready
       ELSE /\ ready' = IF tts[s].voice_tracker
                        THEN ready \o <<Ready("track", c, s, b64encode(n)), bcast>>
                        ELSE ready \o <<bcast>>
            /\ calls' = [seen EXCEPT ![c].forwarded = TRUE]
            /\ UNCHANGED tts
    /\ UNCHANGED <<abuseVars, sessVars, enabled, today, tr, phase, tasks, log, dbSess, dbDaily,
                   dbMonthly, limitEvents, landed, base,
                   verdict, turn, llm, dg>>

\* the loop starts the task _on_audio_data created for
\* dispatcher.broadcast(CALL_WEBSOCKET_PUT, {is_text: False, audio})
BroadcastAudio ==
    /\ ready # <<>> /\ Head(ready).kind = "bcast"
    /\ log' = Broadcast(log, Head(ready).s,
                        <<Msg("CALL_WEBSOCKET_PUT", "audio", Head(ready).c)>>)
    /\ ready' = Tail(ready)
    /\ UNCHANGED <<abuseVars, sessVars, enabled, today, tr, phase, tts, tasks, dbSess, dbDaily,
                   dbMonthly, limitEvents, nchunks, calls, landed, base,
                   verdict, turn, llm, dg>>

\* ---------------------------------------------------------- specifications
\* One session whose TextToSpeechDeepgram is wired to its tracker.
Next ==
    \/ Initialize(1)
    \/ EndSession(1)
    \/ \E n \in ChunkBytes : OnAudioData(1, n, 0)
    \/ TrackTask
    \/ BroadcastAudio
    \/ \E t \in tasks : DbSession(t)
    \/ \E t \in tasks : DbDaily(t)
    \/ \E t \in tasks : DbMonthly(t)
    \/ \E t \in tasks : RecordLimit(t)

Spec == Init /\ [][Next]_vars

\* VoiceUsageInterceptor.run_async: on a VOICE_AUDIO_TRACKED message carrying
\* the base64 text of n bytes it awaits tracker.track_audio_chunk(audio)
TrackCall(s, n) ==
    /\ phase[s] = "running"
    /\ nchunks < MaxChunks
    /\ nchunks' = nchunks + 1
    /\ LET c == nchunks + 1
           seen == [calls EXCEPT ![c].s = s, ![c].bytes = n]
       IN  IF b64encode(n).len = 0
           THEN calls' = seen /\ UNCHANGED <<tr, log, tasks, acts>>
           ELSE track_audio_chunk(s, c, b64encode(n), seen)
    /\ UNCHANGED <<abuse_on, clock, starts, det, abuseEvents, sessVars,
                   enabled, today, phase, tts, ready, dbSess, dbDaily, dbMonthly,
                   limitEvents, landed, base,
                   verdict, turn, llm, dg>>

\* One tracker driven through its interface, with tracking on or off.
InitTracker == InitCommon(InitUsage, BOOLEAN) /\ InitExt({FALSE}, {<<>>})

NextTracker ==
    \/ Initialize(1)
    \/ EndSession(1)
    \/ \E n \in ChunkBytes : TrackCall(1, n)
    \/ \E t \in tasks : DbSession(t)
    \/ \E t \in tasks : DbDaily(t)
    \/ \E t \in tasks : DbMonthly(t)
    \/ \E t \in tasks : RecordLimit(t)

SpecTracker == InitTracker /\ [][NextTracker]_vars

\* Sessions of one user, one after another or at once, across a date change.
StoreChunkBytes == {4096}
StoreUsage == {<<0, 0>>, <<179872, 179872>>}

InitStore == InitCommon(StoreUsage, {TRUE}) /\ InitExt({FALSE}, {<<>>})

NextStore ==
    \/ \E s \in Sessions : Initialize(s)
    \/ \E s \in Sessions : EndSession(s)
    \/ \E s \in Sessions : \E n \in StoreChunkBytes : OnAudioData(s, n, 0)
    \/ TrackTask
    \/ BroadcastAudio
    \/ \E t \in tasks : DbSession(t)
    \/ \E t \in tasks : DbDaily(t)
    \/ \E t \in tasks : DbMonthly(t)
    \/ \E t \in tasks : RecordLimit(t)
    \/ Midnight

SpecStore == InitStore /\ [][NextStore]_vars

\* The two limit evaluations applied to the same counters.
LimitValues == {0, 59999, 60000, 60001, 179999, 180000, 299999, 300000, 300001}

InitLimits == InitCommon({<<0, 0>>}, {TRUE}) /\ InitExt({FALSE}, {<<>>})

\* a tracker holding any counters
LoadCounters ==
    /\ ~verdict.applied
    /\ tr[1] = NewTracker
    /\ \E a, b, c \in LimitValues :
          tr' = [tr EXCEPT ![1].session_duration_ms = a,
                           ![1].daily_duration_ms = b,
                           ![1].monthly_duration_ms = c]
    /\ UNCHANGED <<abuseVars, sessVars, enabled, today, phase, tts, ready, tasks, log, dbSess,
                   dbDaily, dbMonthly, limitEvents, nchunks, calls, landed, base,
                   verdict, turn, llm, dg>>

\* _check_limits() of the tracker and check_limits() of a summary holding the
\* tracker's counters and the configured limits
CheckLimits ==
    /\ ~verdict.applied
    /\ verdict' = [applied |-> TRUE,
                   tracker |-> Tracker_check_limits(tr[1]),
                   summary |-> Summary_check_limits(
                       [session_duration_ms |-> tr[1].session_duration_ms,
                        daily_duration_ms |-> tr[1].daily_duration_ms,
                        monthly_duration_ms |-> tr[1].monthly_duration_ms,
                        session_limit_ms |-> VOICE_LIMIT_SESSION_MINUTES * 60 * 1000,
                        daily_limit_ms |-> VOICE_LIMIT_DAILY_MINUTES * 60 * 1000,
                        monthly_limit_ms |-> VOICE_LIMIT_MONTHLY_MINUTES * 60 * 1000])]
    /\ UNCHANGED <<abuseVars, sessVars, enabled, today, tr, phase, tts, ready, tasks, log, dbSess,
                   dbDaily, dbMonthly, limitEvents, nchunks, calls, landed, base,
                   turn, llm, dg>>

NextLimits == LoadCounters \/ CheckLimits

SpecLimits == InitLimits /\ [][NextLimits]_vars

\* Connections of one user with abuse detection on, the first session
\* tracked through its interceptor.
AbuseUsage == {<<0, 0>>, <<168000, 168000>>}
AbuseChunkBytes == {4096, 384010}
\* started_at of the rows of the user's earlier sessions: none, nine just
\* started, ten started 296 seconds ago
PriorStarts == {<<>>, [i \in 1..9 |-> 0], [i \in 1..10 |-> -296]}

InitAbuse == InitCommon(AbuseUsage, {TRUE}) /\ InitExt({TRUE}, PriorStarts)

NextAbuse ==
    \/ Initialize(1)
    \/ EndSession(1)
    \/ \E n \in AbuseChunkBytes : TrackCall(1, n)
    \/ StartActivity
    \/ \E t \in tasks : DbSession(t)
    \/ \E t \in tasks : DbDaily(t)
    \/ \E t \in tasks : DbMonthly(t)
    \/ \E t \in tasks : RecordLimit(t)
    \/ Tick(5)

SpecAbuse == InitAbuse /\ [][NextAbuse]_vars

\* One detector given activities of any duration: the limits of the tracker
\* that creates the tasks are configuration.
ActivityMs == {1000, 900000}

\* _add_usage: asyncio.create_task(self._abuse_detector.track_activity(d))
CreateActivity(s, d) ==
    /\ phase[s] = "running" /\ det[s].exists
    /\ det[s].created < MaxActs
    /\ det' = [det EXCEPT ![s].created = @ + 1]
    /\ acts' = Append(acts, Activity(s, d))
    /\ UNCHANGED <<abuse_on, clock, starts, abuseEvents, sessVars,
                   enabled, today, tr, phase, tts, ready, tasks, log, dbSess,
                   dbDaily, dbMonthly, limitEvents, nchunks, calls, landed, base,
                   verdict, turn, llm, dg>>

InitDetector == InitCommon({<<0, 0>>}, {TRUE}) /\ InitExt({TRUE}, {<<>>})

NextDetector ==
    \/ Initialize(1)
    \/ \E d \in ActivityMs : CreateActivity(1, d)
    \/ StartActivity
    \/ \E i \in DOMAIN acts : \E ok \in BOOLEAN : FinishActivity(i, ok)
    \/ Tick(1)
    \/ Tick(5)

SpecDetector == InitDetector /\ [][NextDetector]_vars

\* ------------------------------------------------------ LargeLanguageModel
\* Texts are sequences of characters. The contents a final transcription may
\* have, and the content deltas a completion may stream.
Contents == {<<>>, <<"h", "i">>}
Deltas == {<<"H", "i">>, <<"o", "k">>}
\* the names of the tool calls a completion may end with
ToolNames == {"call_api", "other"}

\* str.lower()
lower(w) == [i \in DOMAIN w |-> IF w[i] = "H" THEN "h" ELSE w[i]]

RECURSIVE join(_)
\* "".join(ws)
join(ws) == IF ws = <<>> THEN <<>> ELSE Head(ws) \o join(Tail(ws))

\* tool_implementations.get(name)
tool_implementations(name) == IF name = "call_api" THEN "call_api" ELSE "None"

\* the speech-to-text client publishes FINAL_TRANSCRIPTION_CREATED with a
\* user message of the given content: it joins the driver's subscription
FinalTranscription(content) ==
    /\ turn < MaxTurns
    /\ turn' = turn + 1
    /\ log' = Broadcast(log, 1, <<Msg("FINAL_TRANSCRIPTION_CREATED", content, turn + 1)>>)
    /\ drv' = [drv EXCEPT !.inbox = Append(@, [c |-> turn + 1, content |-> content])]
    /\ UNCHANGED <<abuseVars, mx, el, reset_at, lateVars, messages, sup, pipeVars>>

\* variant of run_async that starts process() as a task of its own and goes
\* on to the next transcription while a completion streams
ProcessStart_Concurrent ==
    /\ drv.pc \in {"idle", "streaming"} /\ drv.inbox # <<>>
    /\ messages' = IF Head(drv.inbox).content # <<>>
                   THEN Append(messages, "user") ELSE messages
    /\ drv' = [drv EXCEPT !.inbox = Tail(@), !.pc = "streaming",
                          !.cur = Head(drv.inbox).c,
                          !.words = <<>>, !.llm_words = <<>>]
    /\ UNCHANGED <<abuseVars, mx, el, reset_at, lateVars, sup, pipeVars, log, turn>>

\* run_async takes the next transcription and awaits process(): it takes none
\* while process() runs. create_completion adds the message to the history
\* unless its content is "" and asks the provider for a stream.
ProcessStart ==
    /\ drv.pc = "idle" /\ drv.inbox # <<>>
    /\ messages' = IF Head(drv.inbox).content # <<>>
                   THEN Append(messages, "user") ELSE messages
    /\ drv' = [drv EXCEPT !.inbox = Tail(@), !.pc = "streaming",
                          !.cur = Head(drv.inbox).c,
                          !.words = <<>>, !.llm_words = <<>>]
    /\ UNCHANGED <<abuseVars, mx, el, reset_at, lateVars, sup, pipeVars, log, turn>>

\* the stream delivers a content delta w: create_completion appends it to
\* words and yields it, process() lowers it, appends it to llm_words and
\* broadcasts LLM_GENERATED_TEXT
StreamDelta(w) ==
    /\ drv.pc = "streaming"
    /\ Len(drv.raw[drv.cur]) < MaxTokens
    /\ drv' = [drv EXCEPT !.words = Append(@, w),
                          !.llm_words = Append(@, lower(w)),
                          !.raw[drv.cur] = Append(@, w)]
    /\ log' = Broadcast(log, 1, <<Msg("LLM_GENERATED_TEXT", lower(w), drv.cur)>>)
    /\ UNCHANGED <<abuseVars, mx, el, reset_at, lateVars, messages, sup, pipeVars, turn>>

\* run_async after process() has returned: get_nowait on its CALL_ENDED
\* subscription; a CALL_ENDED published since it subscribed ends the loop
AfterProcess ==
    IF \E i \in DOMAIN log[1] :
          i > sup[1].subscribed_at /\ log[1][i].type = "CALL_ENDED"
    THEN "done" ELSE "idle"

\* what the end of process() publishes
TtsFlush(llm_words, c) == Msg("TTS_FLUSH", join(llm_words), c)

\* the stream ends: create_completion adds the assistant record when words
\* is not empty, process() broadcasts TTS_FLUSH and returns to run_async
StreamEnds ==
    /\ drv.pc = "streaming"
    /\ messages' = IF drv.words # <<>> THEN Append(messages, "assistant") ELSE messages
    /\ log' = Broadcast(log, 1, <<TtsFlush(drv.llm_words, drv.cur)>>)
    /\ drv' = [drv EXCEPT !.pc = AfterProcess, !.ends[drv.cur] = "stop"]
    /\ UNCHANGED <<abuseVars, mx, el, reset_at, lateVars, sup, pipeVars, turn>>

\* the stream finishes with finish_reason "tool_calls": create_completion
\* yields the call, process() broadcasts CLEAR_EXISTING_BUFFER and looks the
\* name up. A name it finds makes it read self.lat, which no code sets: the
\* AttributeError leaves process() and run_async. For any other name the
\* stream ends as in StreamEnds.
StreamToolCall(name) ==
    /\ drv.pc = "streaming"
    /\ IF tool_implementations(name) # "None"
       THEN /\ log' = Broadcast(log, 1, <<Msg("CLEAR_EXISTING_BUFFER", "tool_call", drv.cur)>>)
            /\ drv' = [drv EXCEPT !.pc = "failed", !.ends[drv.cur] = "tool_calls"]
            /\ UNCHANGED messages
       ELSE /\ log' = Broadcast(log, 1,
                         <<Msg("CLEAR_EXISTING_BUFFER", "tool_call", drv.cur),
                           TtsFlush(drv.llm_words, drv.cur)>>)
            /\ drv' = [drv EXCEPT !.pc = AfterProcess, !.ends[drv.cur] = "tool_calls"]
            /\ messages' = IF drv.words # <<>>
                           THEN Append(messages, "assistant") ELSE messages
    /\ UNCHANGED <<abuseVars, mx, el, reset_at, lateVars, sup, pipeVars, turn>>

\* the provider raises while the completion is requested or streamed: nothing
\* in create_completion, process() or run_async catches it
StreamError ==
    /\ drv.pc = "streaming"
    /\ drv' = [drv EXCEPT !.pc = "failed", !.ends[drv.cur] = "error"]
    /\ UNCHANGED <<abuseVars, mx, el, reset_at, lateVars, messages, sup, pipeVars, log, turn>>

\* The LLM driver of one session and its provider.
InitLlm == InitCommon({<<0, 0>>}, {TRUE}) /\ InitExt({FALSE}, {<<>>})

NextLlm ==
    \/ \E content \in Contents : FinalTranscription(content)
    \/ ProcessStart
    \/ \E w \in Deltas : StreamDelta(w)
    \/ StreamEnds
    \/ \E name \in ToolNames : StreamToolCall(name)
    \/ StreamError

SpecLlm == InitLlm /\ [][NextLlm]_vars

\* The driver with one content and one delta: the order of its turns.
TurnContents == {<<"h", "i">>}
TurnDeltas == {<<"o", "k">>}

NextTurns ==
    \/ \E content \in TurnContents : FinalTranscription(content)
    \/ ProcessStart
    \/ \E w \in TurnDeltas : StreamDelta(w)
    \/ StreamEnds
    \/ \E name \in ToolNames : StreamToolCall(name)
    \/ StreamError

SpecTurns == InitLlm /\ [][NextTurns]_vars

\* ----------------------------------------------------- websocket_endpoint
\* the TTS class websocket_endpoint is written to build, and the one its
\* comments give as the alternative
TtsClasses == {"TextToSpeechMinimax", "TextToSpeechDeepgram"}
\* the language query parameter, which may be absent
Languages == {"en", "None"}

\* TextToSpeechMinimax.__init__ has no voice_tracker parameter
AcceptsVoiceTracker(tts_class) == tts_class = "TextToSpeechDeepgram"

\* websocket_endpoint after initialize(): it builds the logger, the socket
\* manager, the STT client (language.value), the LLM driver and the TTS client
\* (voice_id = language.value, voice_tracker = voice_tracker) before its try.
\* AttributeError (no language) or TypeError (unexpected keyword argument)
\* leaves the endpoint there.
Construct(tts_class, language) ==
    IF language = "None" \/ ~AcceptsVoiceTracker(tts_class)
    THEN "crashed" ELSE "built"

\* the stage of the endpoint of session s is st
At(s, st) == phase[s] = "running" /\ sup[s].stage = st

BuildComponents(s, tts_class, language) ==
    /\ At(s, "init")
    /\ sup' = [sup EXCEPT ![s].stage = Construct(tts_class, language)]
    /\ UNCHANGED <<abuseVars, mx, el, reset_at, lateVars, messages, drv, pipeVars, log, turn>>

\* the endpoint creates the session's tasks and awaits asyncio.wait: the
\* tasks start and subscribe
StartTasks(s) ==
    /\ At(s, "built")
    /\ sup' = [sup EXCEPT ![s].stage = "running",
                          ![s].subscribed_at = Len(log[s]),
                          ![s].put_at = Len(log[s])]
    /\ UNCHANGED <<abuseVars, mx, el, reset_at, lateVars, messages, drv, pipeVars, log, turn>>

\* how ws.send_json ends on a socket send() has found open
SendOutcomes == {"sent", "raises"}

\* WebsocketManager.send(message) of a dict: it returns without sending when
\* is_closed(), else it awaits ws.send_json, whose exception it does not catch.
\* E is the endpoint record of the session.
send(E, outcome) ==
    IF E.socket = "closed" THEN [E EXCEPT !.dropped = @ + 1]
    ELSE IF outcome = "raises" THEN [E EXCEPT !.failed = TRUE]
    ELSE [E EXCEPT !.frames = @ + 1]

\* websocket_put_voice_disabled takes the next VOICE_DISABLED published since
\* it subscribed and awaits send() of a voice_disabled frame; an exception of
\* send() ends the handler and, through gather, the socket manager's task
PutVoiceDisabled(s, outcome) ==
    /\ At(s, "running") /\ ~sup[s].failed
    /\ \E i \in DOMAIN log[s] :
          /\ i > sup[s].put_at /\ log[s][i].type = "VOICE_DISABLED"
          /\ \A j \in (sup[s].put_at + 1)..(i - 1) : log[s][j].type # "VOICE_DISABLED"
          /\ sup' = [sup EXCEPT ![s] = send([sup[s] EXCEPT !.put_at = i], outcome)]
    /\ UNCHANGED <<abuseVars, mx, el, reset_at, lateVars, messages, drv, pipeVars, log, turn>>

\* the client disconnects
PeerCloses(s) ==
    /\ At(s, "running")
    /\ sup[s].socket = "open"
    /\ sup' = [sup EXCEPT ![s].socket = "closed"]
    /\ UNCHANGED <<abuseVars, mx, el, reset_at, lateVars, messages, drv, pipeVars, log, turn>>

\* check_connection finds the socket disconnected: it broadcasts CALL_ENDED
\* and ends
CheckConnection(s) ==
    /\ At(s, "running")
    /\ sup[s].socket = "closed" /\ sup[s].check_connection = "running"
    /\ sup' = [sup EXCEPT ![s].check_connection = "done"]
    /\ log' = Broadcast(log, s, <<Msg("CALL_ENDED", "Closed", 0)>>)
    /\ UNCHANGED <<abuseVars, mx, el, reset_at, lateVars, messages, drv, pipeVars, turn>>

\* asyncio.wait(tasks, return_when=FIRST_EXCEPTION) returns because the LLM
\* driver's task or the socket manager's has raised: the endpoint cancels the
\* pending tasks,
\* task.result() raises, websocket_manager.dispose() cancels every other task
\* of the loop (the background writes with them) and the finally begins. The
\* tasks of the loop include those of every other session and the endpoints
\* that await them: each such endpoint gets CancelledError from asyncio.wait,
\* disposes in turn and goes to its finally.
WaitReturns(s) ==
    /\ At(s, "running")
    /\ (s = 1 /\ drv.pc = "failed") \/ sup[s].failed
    /\ sup' = [o \in Sessions |->
                 IF o = s \/ At(o, "running")
                 THEN [sup[o] EXCEPT !.stage = "returned", !.cancelled = TRUE]
                 ELSE sup[o]]
    /\ tasks' = {}
    /\ ready' = <<>>
    /\ UNCHANGED <<abuseVars, mx, el, reset_at, lateVars, messages, drv, log, turn, enabled, today, tr, phase,
                   tts, dbSess, dbDaily, dbMonthly, limitEvents, nchunks, calls,
                   landed, base, verdict, llm, dg>>

\* One connection of a user far from, close to or at the daily limit, from
\* initialize() on: the TTS client's audio, its tracking and the frames the
\* socket manager sends.
SessionUsage == {<<0, 0>>, <<168000, 168000>>, <<180000, 180000>>}
SessionChunkBytes == {384010}

InitSession == InitCommon(SessionUsage, {TRUE}) /\ InitExt({FALSE}, {<<>>})

NextSession ==
    \/ Initialize(1)
    \/ \E tts_class \in TtsClasses : \E language \in Languages :
          BuildComponents(1, tts_class, language)
    \/ StartTasks(1)
    \/ At(1, "running") /\ \E n \in SessionChunkBytes : OnAudioData(1, n, 0)
    \/ At(1, "running") /\ TrackTask
    \/ At(1, "running") /\ BroadcastAudio
    \/ \E outcome \in SendOutcomes : PutVoiceDisabled(1, outcome)
    \/ PeerCloses(1)
    \/ CheckConnection(1)
    \/ WaitReturns(1)
    \/ At(1, "returned") /\ EndSession(1)
    \/ \E t \in tasks : DbSession(t)
    \/ \E t \in tasks : DbDaily(t)
    \/ \E t \in tasks : DbMonthly(t)
    \/ \E t \in tasks : RecordLimit(t)

SpecSession == InitSession /\ [][NextSession]_vars

\* One connection from initialize() to the end of the endpoint: the tasks
\* the endpoint waits for, the LLM driver among them, and the client's socket.
InitSupervised == InitCommon({<<0, 0>>}, {TRUE}) /\ InitExt({FALSE}, {<<>>})

NextSupervised ==
    \/ Initialize(1)
    \/ \E tts_class \in TtsClasses : \E language \in Languages :
          BuildComponents(1, tts_class, language)
    \/ StartTasks(1)
    \/ At(1, "running") /\ sup[1].socket = "open"
          /\ \E content \in Contents : FinalTranscription(content)
    \/ At(1, "running") /\ ProcessStart
    \/ At(1, "running") /\ \E w \in Deltas : StreamDelta(w)
    \/ At(1, "running") /\ StreamEnds
    \/ At(1, "running") /\ \E name \in ToolNames : StreamToolCall(name)
    \/ At(1, "running") /\ StreamError
    \/ PeerCloses(1)
    \/ CheckConnection(1)
    \/ WaitReturns(1)
    \/ At(1, "returned") /\ EndSession(1)

SpecSupervised == InitSupervised /\ [][NextSupervised]_vars

\* the event loop runs every task that can run
SpecSupervisedFair == SpecSupervised /\ WF_vars(NextSupervised)

\* Two connections served by the same event loop; the first has the LLM
\* driver, whose stream may fail.
NextIsolation ==
    \/ \E s \in Sessions : Initialize(s)
    \/ \E s \in Sessions : \E tts_class \in TtsClasses : \E language \in Languages :
          BuildComponents(s, tts_class, language)
    \/ \E s \in Sessions : StartTasks(s)
    \/ At(1, "running") /\ \E content \in TurnContents : FinalTranscription(content)
    \/ At(1, "running") /\ ProcessStart
    \/ At(1, "running") /\ StreamEnds
    \/ At(1, "running") /\ StreamError
    \/ \E s \in Sessions : PeerCloses(s)
    \/ \E s \in Sessions : CheckConnection(s)
    \/ \E s \in Sessions : WaitReturns(s)
    \/ \E s \in Sessions : At(s, "returned") /\ EndSession(s)

SpecIsolation == InitSupervised /\ [][NextIsolation]_vars

\* ------------------------------------------- conversation and barge-in
\* TextToSpeechDeepgram.__init__
min_buffer_size == 5

\* Texts of the tokens a completion streams: their words, their characters
\* and whether they end with '.', '!' or '?'.
TokenTexts == {[words |-> 1, chars |-> 3, stop |-> FALSE],
               [words |-> 1, chars |-> 3, stop |-> TRUE],
               [words |-> 4, chars |-> 20, stop |-> FALSE]}
BargeChunkBytes == {4096}

\* the speech-to-text client publishes FINAL_TRANSCRIPTION_CREATED: the message
\* joins the LLM driver's subscription and wakes handle_user_interruption
UserSpeaks ==
    /\ phase[1] = "running"
    /\ turn < MaxTurns
    /\ turn' = turn + 1
    /\ log' = Broadcast(log, 1, <<Msg("FINAL_TRANSCRIPTION_CREATED", "", turn + 1)>>)
    /\ llm' = [llm EXCEPT !.inbox = Append(@, turn + 1)]
    /\ ready' = Append(ready, Ready("speech", 0, 1, turn + 1))
    /\ UNCHANGED <<abuseVars, sessVars, enabled, today, tr, phase, tts, tasks, dbSess, dbDaily,
                   dbMonthly, limitEvents, nchunks, calls, landed, base,
                   verdict, dg>>

\* LargeLanguageModel.run_async takes the next transcription and starts
\* process(): it takes none while a completion is streaming
LlmStart ==
    /\ ~llm.busy /\ llm.inbox # <<>>
    /\ llm' = [inbox |-> Tail(llm.inbox), busy |-> TRUE, streamed |-> 0]
    /\ UNCHANGED <<abuseVars, sessVars, enabled, today, tr, phase, tts, ready, tasks, log, dbSess,
                   dbDaily, dbMonthly, limitEvents, nchunks, calls, landed, base,
                   verdict, turn, dg>>

\* process(): create_completion yields words, broadcast as LLM_GENERATED_TEXT
\* with is_audio_required; at records how many transcriptions were published
LlmToken(w) ==
    /\ llm.busy /\ llm.streamed < MaxTokens
    /\ llm' = [llm EXCEPT !.streamed = @ + 1]
    /\ ready' = Append(ready, Ready("text", 0, 1,
                     [words |-> w.words, chars |-> w.chars, stop |-> w.stop,
                      at |-> turn]))
    /\ UNCHANGED <<abuseVars, sessVars, enabled, today, tr, phase, tts, tasks, log, dbSess,
                   dbDaily, dbMonthly, limitEvents, nchunks, calls, landed, base,
                   verdict, turn, dg>>

\* process(): the completion is over, TTS_FLUSH is broadcast
LlmDone ==
    /\ llm.busy
    /\ llm' = [llm EXCEPT !.busy = FALSE]
    /\ ready' = Append(ready, Ready("flush", 0, 1, 0))
    /\ UNCHANGED <<abuseVars, sessVars, enabled, today, tr, phase, tts, tasks, log, dbSess,
                   dbDaily, dbMonthly, limitEvents, nchunks, calls, landed, base,
                   verdict, turn, dg>>

\* send_text(text) of a non-empty text on an open connection: the texts the
\* connection holds afterwards. The caller has found is_interrupted false.
send_text(s, at) ==
    IF tts[s].voice_tracker /\ ~is_voice_enabled(s) THEN dg ELSE dg \cup {at}

\* add_word_to_buffer: the buffer with the token's words appended
Appended(b, w) ==
    [words |-> b.words + w.words, chars |-> b.chars + w.chars, stop |-> w.stop,
     at |-> IF b.words = 0 THEN w.at ELSE IF w.at < b.at THEN w.at ELSE b.at]

\* add_word_to_buffer: should_send
should_send_WordsOnly(b) == b.words >= min_buffer_size
should_send(b) == IF b.stop THEN b.chars >= 10 ELSE b.words >= min_buffer_size

\* handle_llm_generated_text takes an LLM_GENERATED_TEXT message: it resets
\* is_interrupted and calls add_word_to_buffer, which flushes the buffer to
\* the provider or arms the flush timer
HandleLlmText ==
    /\ ready # <<>> /\ Head(ready).kind = "text"
    /\ ready' = Tail(ready)
    /\ LET s == Head(ready).s
           b == Appended(tts[s].word_buffer, Head(ready).data)
       IN  IF should_send(b)
           THEN /\ tts' = [tts EXCEPT ![s].is_interrupted = FALSE,
                                      ![s].word_buffer = EmptyBuffer,
                                      ![s].buffer_timer = FALSE]
                /\ dg' = send_text(s, b.at)
           ELSE /\ tts' = [tts EXCEPT ![s].is_interrupted = FALSE,
                                      ![s].word_buffer = b,
                                      ![s].buffer_timer = TRUE]
                /\ UNCHANGED dg
    /\ UNCHANGED <<abuseVars, sessVars, enabled, today, tr, phase, tasks, log, dbSess,
                   dbDaily, dbMonthly, limitEvents, nchunks, calls, landed, base,
                   verdict, turn, llm>>

\* delayed_flush: the timer of _schedule_buffer_flush runs out, one second
\* after it was armed, when everything that was ready has run
DelayedFlush(s) ==
    /\ tts[s].buffer_timer
    /\ ready = <<>>
    /\ IF tts[s].word_buffer.words > 0 /\ ~tts[s].is_interrupted
       THEN /\ tts' = [tts EXCEPT ![s].word_buffer = EmptyBuffer,
                                  ![s].buffer_timer = FALSE]
            /\ dg' = send_text(s, tts[s].word_buffer.at)
       ELSE /\ tts' = [tts EXCEPT ![s].buffer_timer = FALSE]
            /\ UNCHANGED dg
    /\ UNCHANGED <<abuseVars, sessVars, enabled, today, tr, phase, ready, tasks, log, dbSess,
                   dbDaily, dbMonthly, limitEvents, nchunks, calls, landed, base,
                   verdict, turn, llm>>

\* handle_tts_flush takes a TTS_FLUSH message: flush_and_end
HandleTtsFlush ==
    /\ ready # <<>> /\ Head(ready).kind = "flush"
    /\ ready' = Tail(ready)
    /\ LET s == Head(ready).s
       IN  IF tts[s].word_buffer.words > 0 /\ ~tts[s].is_interrupted
           THEN /\ tts' = [tts EXCEPT ![s].word_buffer = EmptyBuffer,
                                      ![s].buffer_timer = FALSE]
                /\ dg' = send_text(s, tts[s].word_buffer.at)
           ELSE UNCHANGED <<tts, dg>>
    /\ UNCHANGED <<abuseVars, sessVars, enabled, today, tr, phase, tasks, log, dbSess,
                   dbDaily, dbMonthly, limitEvents, nchunks, calls, landed, base,
                   verdict, turn, llm>>

\* handle_user_interruption takes a FINAL_TRANSCRIPTION_CREATED message: it
\* sets is_interrupted, empties the buffer, cancels the timer, asks the
\* provider to flush and broadcasts CLEAR_EXISTING_BUFFER
HandleUserInterruption ==
    /\ ready # <<>> /\ Head(ready).kind = "speech"
    /\ ready' = Tail(ready)
    /\ LET s == Head(ready).s
       IN  /\ tts' = [tts EXCEPT ![s].is_interrupted = TRUE,
                                 ![s].word_buffer = EmptyBuffer,
                                 ![s].buffer_timer = FALSE]
           /\ log' = Broadcast(log, s,
                  <<Msg("CLEAR_EXISTING_BUFFER", "tts_interrupt", Head(ready).data)>>)
    /\ UNCHANGED <<abuseVars, sessVars, enabled, today, tr, phase, tasks, dbSess,
                   dbDaily, dbMonthly, limitEvents, nchunks, calls, landed, base,
                   verdict, turn, llm, dg>>

\* the provider renders a text it was sent and delivers a chunk of its audio
ProviderAudio(s, n) == \E at \in dg : OnAudioData(s, n, at)

\* One conversation without usage tracking.
InitBarge == InitCommon({<<0, 0>>}, {FALSE}) /\ InitExt({FALSE}, {<<>>})

NextBarge ==
    \/ Initialize(1)
    \/ UserSpeaks
    \/ LlmStart
    \/ \E w \in TokenTexts : LlmToken(w)
    \/ LlmDone
    \/ HandleLlmText
    \/ DelayedFlush(1)
    \/ HandleTtsFlush
    \/ HandleUserInterruption
    \/ \E n \in BargeChunkBytes : ProviderAudio(1, n)
    \/ BroadcastAudio

SpecBarge == InitBarge /\ [][NextBarge]_vars

\* ------------------------------------------- VoiceManagementRepository
\* reset_user_usage(user_id): update_one on the user's row of the current
\* day and on the row of the current month, duration_ms set to 0. Sessions
\* and their trackers are not touched.
ResetUser ==
    /\ reset_at = -1
    /\ reset_at' = nchunks
    /\ dbDaily' = [dbDaily EXCEPT ![today] = 0]
    /\ dbMonthly' = 0
    /\ UNCHANGED <<abuseVars, messages, sup, drv, mx, el, lateVars, enabled, today, tr, phase,
                   tts, ready, tasks, dbSess, limitEvents, nchunks, calls, landed,
                   base, verdict, llm, dg, log, turn>>

\* One session of a user whose usage an administrator resets.
ResetChunkBytes == {4096, 384010}
ResetUsage == {<<0, 0>>, <<180000, 180000>>}

InitReset == InitCommon(ResetUsage, {TRUE}) /\ InitExt({FALSE}, {<<>>})

NextReset ==
    \/ Initialize(1)
    \/ \E n \in ResetChunkBytes : TrackCall(1, n)
    \/ \E t \in tasks : DbSession(t)
    \/ \E t \in tasks : DbDaily(t)
    \/ \E t \in tasks : DbMonthly(t)
    \/ \E t \in tasks : RecordLimit(t)
    \/ ResetUser

SpecReset == InitReset /\ [][NextReset]_vars

\* ------------------------------------------- persistence errors in the writes
\* variant of the except branch of _update_database that takes the chunk's
\* duration back out of the tracker's counters
UpdateDatabaseFails_Rollback(t) ==
    /\ t \in tasks /\ t.kind = "dbwrite"
    /\ tasks' = tasks \ {t}
    /\ tr' = [tr EXCEPT ![t.s].session_duration_ms = @ - t.ms,
                        ![t.s].daily_duration_ms = @ - t.ms,
                        ![t.s].monthly_duration_ms = @ - t.ms]
    /\ UNCHANGED <<abuseVars, sessVars, enabled, today, phase, tts, ready, log,
                   dbSess, dbDaily, dbMonthly, limitEvents, nchunks, calls,
                   landed, base, verdict, turn, llm, dg>>

\* _update_database: the repository call the task is waiting in raises; the
\* except branch prints and the task is over, its remaining writes not made
UpdateDatabaseFails(t) ==
    /\ t \in tasks /\ t.kind = "dbwrite"
    /\ tasks' = tasks \ {t}
    /\ UNCHANGED <<abuseVars, sessVars, enabled, today, tr, phase, tts, ready,
                   log, dbSess, dbDaily, dbMonthly, limitEvents, nchunks, calls,
                   landed, base, verdict, turn, llm, dg>>

\* _record_limit_reached: record_limit_event raises (at = "event"), or
\* mark_session_limit_reached does after the event was recorded (at = "mark");
\* the except branch prints and the task is over
RecordLimitFails(t, at) ==
    /\ t \in tasks /\ t.kind = "record"
    /\ limitEvents' = IF at = "mark" THEN limitEvents + 1 ELSE limitEvents
    /\ tasks' = tasks \ {t}
    /\ UNCHANGED <<abuseVars, sessVars, enabled, today, tr, phase, tts, ready,
                   log, dbSess, dbDaily, dbMonthly, nchunks, calls,
                   landed, base, verdict, turn, llm, dg>>

\* One tracker whose background writes may fail at any of their calls.
InitWriteErrors == InitCommon(InitUsage, {TRUE}) /\ InitExt({FALSE}, {<<>>})

NextWriteErrors ==
    \/ Initialize(1)
    \/ EndSession(1)
    \/ \E n \in ChunkBytes : TrackCall(1, n)
    \/ \E t \in tasks : DbSession(t)
    \/ \E t \in tasks : DbDaily(t)
    \/ \E t \in tasks : DbMonthly(t)
    \/ \E t \in tasks : RecordLimit(t)
    \/ \E t \in tasks : UpdateDatabaseFails(t)
    \/ \E t \in tasks : \E at \in {"event", "mark"} : RecordLimitFails(t, at)

SpecWriteErrors == InitWriteErrors /\ [][NextWriteErrors]_vars

\* -------------------------------------- the Deepgram client's word buffer
\* Texts of tokens around the thresholds of add_word_to_buffer: "a b c d",
\* " .", " hello there." (words, characters with the leading blank, final
\* '.', '!' or '?')
BufferTokens == {[words |-> 4, chars |-> 7, stop |-> FALSE],
                 [words |-> 1, chars |-> 2, stop |-> TRUE],
                 [words |-> 2, chars |-> 13, stop |-> TRUE]}

\* One conversation with the Deepgram client, without usage tracking and
\* without audio; each message is handled before the next is published, so
\* that the timer may run out between any two of them.
InitBuffer == InitCommon({<<0, 0>>}, {FALSE}) /\ InitExt({FALSE}, {<<>>})

NextBuffer ==
    \/ Initialize(1)
    \/ ready = <<>> /\ UserSpeaks
    \/ LlmStart
    \/ ready = <<>> /\ \E w \in BufferTokens : LlmToken(w)
    \/ ready = <<>> /\ LlmDone
    \/ HandleLlmText
    \/ DelayedFlush(1)
    \/ HandleTtsFlush
    \/ HandleUserInterruption

SpecBuffer == InitBuffer /\ [][NextBuffer]_vars

\* the loop runs what is ready, and a timer that is armed runs out
SpecBufferFair == SpecBuffer /\ WF_vars(NextBuffer)

\* ------------------------------------------------ TextToSpeechMinimax
\* TextToSpeechMinimax.__init__
minimax_min_buffer_size == 10

\* Texts of the tokens a completion streams to the Minimax client: their
\* words and how they end ('.', '!' or '?': "stop"; ',', ';' or ':': "pause")
MinimaxTokens == {[words |-> 1, end |-> "none"], [words |-> 2, end |-> "stop"]}

\* what the provider answers a connection attempt with: the acknowledgement
\* "connected_success", another first message, or no connection at all
ConnectOutcomes == {"connected_success", "refused", "error"}

\* a frame on socket k. Sent to the provider: task_start, task_continue with
\* the tokens of its text, task_finish, t being the turn it belongs to; read
\* by the listener: task_started, is_final
Frame(event, t, toks, k) == [event |-> event, turn |-> t, toks |-> toks, sock |-> k]

\* connect_websocket: it returns at once when is_connected. Otherwise it opens
\* a socket and keeps it in self.websocket; on "connected_success" it marks
\* the client connected, makes a fresh task_started_event and creates a
\* _listen_for_audio task. A socket answered otherwise is left open.
connect_websocket(m, outcome) ==
    IF m.is_connected \/ outcome = "error" \/ m.opened >= MaxSockets THEN m
    ELSE LET k == m.opened + 1
             c == [m EXCEPT !.websocket = k, !.opened = k, !.open = @ \cup {k},
                            !.unconfirmed = 0, !.rendering = 0]
         IN  IF outcome = "refused" THEN c
             ELSE [c EXCEPT !.is_connected = TRUE, !.event = FALSE,
                            !.listeners = @ + 1]

\* send_text: the task_continue frame
task_continue(m, toks, t) ==
    [m EXCEPT !.wire = Append(@, Frame("task_continue", t, toks, m.websocket)),
              !.rendering = @ + 1]

\* send_text(text) of a non-empty text, called inside _flush_buffer by `by`:
\* connect if not connected, _start_task if no task is started, then
\* task_continue. _start_task sends task_start and waits for
\* task_started_event: the call is suspended there (flush) unless the event
\* is already set. The flush timer's task has cancelled itself in
\* _flush_buffer, so it ends where it would suspend: in websockets.connect or
\* in the wait. A websocket.send on an open socket does not suspend.
Minimax_send_text(m, by, toks, t, outcome) ==
    LET c == IF by = "timer" THEN m ELSE connect_websocket(m, outcome)
    IN  IF ~c.is_connected THEN c
        ELSE IF c.is_task_started THEN task_continue(c, toks, t)
        ELSE LET st == [c EXCEPT !.wire = Append(@, Frame("task_start", t, {}, c.websocket)),
                                 !.unconfirmed = @ + 1]
             IN  IF st.event THEN task_continue(st, toks, t)
                 ELSE IF by = "timer" THEN st
                 ELSE [st EXCEPT !.flush = [by |-> by, toks |-> toks, turn |-> t,
                                            sock |-> st.websocket, woken |-> FALSE]]

\* _flush_buffer(reason) called by `by`: nothing while a flush is in progress
\* or the buffer is empty, nothing for a single word unless forced; otherwise
\* the buffer is emptied, the timer cancelled and the text handed to
\* send_text. is_processing stays set while send_text is suspended.
flush_buffer(m, reason, by, outcome) ==
    IF m.is_processing \/ m.word_buffer.words = 0 THEN m
    ELSE IF m.word_buffer.words < 2 /\ reason # "forced" THEN m
    ELSE LET f == Minimax_send_text(
                      [m EXCEPT !.is_processing = TRUE, !.word_buffer = EmptyWords,
                                !.buffer_timer = FALSE],
                      by, m.word_buffer.toks, m.word_buffer.turn, outcome)
         IN  [f EXCEPT !.is_processing = (f.flush.by # "none")]

\* add_word_to_buffer(word): the token is dropped while a flush is in
\* progress; otherwise it is appended and the buffer is flushed at a sentence
\* end of two words or more, at a pause point of four words or more, or at
\* min_buffer_size words; in every other case the flush timer is (re)armed.
Minimax_add_word_to_buffer(m, w, outcome) ==
    IF m.is_processing THEN m
    ELSE LET b == [toks |-> m.word_buffer.toks \cup {w.id},
                   words |-> m.word_buffer.words + w.words,
                   end |-> w.end, turn |-> w.turn]
             a == [m EXCEPT !.word_buffer = b, !.buffered = @ \cup {w.id}]
             schedule == [a EXCEPT !.buffer_timer = TRUE]
         IN  IF b.end = "stop"
             THEN IF b.words >= 2 THEN flush_buffer(a, "sentence_end", "token", outcome)
                  ELSE schedule
             ELSE IF b.end = "pause" /\ b.words >= 4
                  THEN flush_buffer(a, "pause_point", "token", outcome)
             ELSE IF b.words >= minimax_min_buffer_size
                  THEN flush_buffer(a, "buffer_size", "token", outcome)
             ELSE schedule

\* handle_llm_generated_text after add_word_to_buffer has returned: on the
\* first text of a turn CLEAR_EXISTING_BUFFER is broadcast, which the client's
\* own handle_clear_buffer is subscribed to
AfterText(m) ==
    IF m.send_buffer_event
    THEN [m EXCEPT !.send_buffer_event = FALSE, !.th = "idle",
                   !.clear_inbox = IF m.tc = "dead" THEN @ ELSE @ + 1]
    ELSE [m EXCEPT !.th = "idle"]

\* the tokens the provider has been sent in task_continue frames
Sent(m) == UNION {m.wire[i].toks : i \in DOMAIN m.wire}

\* flush_and_end past its flush: task_finish when a task is started; then
\* handle_tts_flush sets send_buffer_event and waits for the next TTS_FLUSH
FinishTurn(m) ==
    LET f == IF m.is_connected /\ m.websocket # 0 /\ m.is_task_started
             THEN [m EXCEPT !.wire = Append(@, Frame("task_finish", m.flush_turn, {},
                                                     m.websocket)),
                            !.is_task_started = FALSE]
             ELSE m
    IN  [f EXCEPT !.send_buffer_event = TRUE, !.tf = "idle",
                  !.flushed[m.flush_turn] =
                      [handled |-> TRUE, before |-> m.buffered, sent |-> Sent(f),
                       left |-> f.word_buffer.toks]]

\* flush_and_end: a forced flush of what is buffered, then FinishTurn
flush_and_end(m, outcome) ==
    LET f == flush_buffer(m, "forced", "flush_and_end", outcome)
    IN  IF f.flush.by = "flush_and_end" THEN [f EXCEPT !.tf = "flush_and_end"]
        ELSE FinishTurn(f)

\* handle_tts_flush for one TTS_FLUSH: a forced flush, then flush_and_end
handle_tts_flush(m, outcome) ==
    LET f == flush_buffer(m, "forced", "handle_tts_flush", outcome)
    IN  IF f.flush.by = "handle_tts_flush" THEN [f EXCEPT !.tf = "handle_tts_flush"]
        ELSE flush_and_end(f, outcome)

\* the caller of a _flush_buffer that was suspended goes on
Resume(m, by, outcome) ==
    CASE by = "token" -> AfterText(m)
      [] by = "handle_tts_flush" -> flush_and_end(m, outcome)
      [] OTHER -> FinishTurn(m)

\* close_connection with an empty word_buffer: flush_and_end sends task_finish
\* when a task is started, the socket is closed, which ends the listener
\* reading it, and the client is marked disconnected
close_connection(m) ==
    LET f == IF m.websocket # 0 /\ m.is_connected /\ m.is_task_started
             THEN [m EXCEPT !.wire = Append(@, Frame("task_finish", m.turn, {},
                                                     m.websocket))]
             ELSE m
    IN  [f EXCEPT !.open = @ \ {m.websocket},
                  !.listeners = IF m.websocket \in m.open THEN 0 ELSE @,
                  !.stopped_by = IF m.websocket \in m.open /\ m.listeners > 0
                                 THEN "close_connection" ELSE @,
                  !.is_connected = FALSE, !.is_task_started = FALSE,
                  !.buffer_timer = FALSE]

\* run_async: the initial connect_websocket; the three handlers are gathered
\* only when it succeeded
MinimaxRun(outcome) ==
    /\ mx.run = "connect"
    /\ LET c == connect_websocket(mx, outcome)
       IN  mx' = [c EXCEPT !.run = IF c.is_connected THEN "serving" ELSE "failed"]
    /\ UNCHANGED <<abuseVars, messages, sup, drv, el, reset_at, lateVars, pipeVars, log, turn>>

\* the LLM publishes LLM_GENERATED_TEXT with audio required: the first token
\* of a turn, or one more token of the turn it is streaming
MinimaxToken(w) ==
    /\ mx.run \in {"serving", "stopped"}
    /\ IF mx.done THEN mx.turn < MinimaxTurns ELSE mx.streamed < MaxTokens
    /\ LET t == IF mx.done THEN mx.turn + 1 ELSE mx.turn
           n == IF mx.done THEN 1 ELSE mx.streamed + 1
       IN  mx' = [mx EXCEPT !.turn = t, !.streamed = n, !.done = FALSE,
                            !.text_inbox = Append(@, [id |-> <<t, n>>, turn |-> t,
                                                      words |-> w.words, end |-> w.end])]
    /\ UNCHANGED <<abuseVars, messages, sup, drv, el, reset_at, lateVars, pipeVars, log, turn>>

\* the LLM publishes TTS_FLUSH: the turn is over
MinimaxTurnEnds ==
    /\ mx.run \in {"serving", "stopped"}
    /\ ~mx.done
    /\ mx' = [mx EXCEPT !.done = TRUE, !.flush_inbox = Append(@, mx.turn)]
    /\ UNCHANGED <<abuseVars, messages, sup, drv, el, reset_at, lateVars, pipeVars, log, turn>>

\* handle_llm_generated_text takes a token: add_word_to_buffer, which may
\* leave the handler suspended in a flush
MinimaxHandleText(outcome) ==
    /\ mx.th = "idle" /\ mx.text_inbox # <<>>
    /\ LET a == Minimax_add_word_to_buffer([mx EXCEPT !.text_inbox = Tail(@)],
                                           Head(mx.text_inbox), outcome)
       IN  mx' = IF a.flush.by = "token" THEN [a EXCEPT !.th = "flushing"]
                 ELSE AfterText(a)
    /\ UNCHANGED <<abuseVars, messages, sup, drv, el, reset_at, lateVars, pipeVars, log, turn>>

\* delayed_flush: max_buffer_time after the timer was armed
MinimaxTimerFlush ==
    /\ mx.buffer_timer
    /\ mx' = flush_buffer([mx EXCEPT !.buffer_timer = FALSE], "timer", "timer", "error")
    /\ UNCHANGED <<abuseVars, messages, sup, drv, el, reset_at, lateVars, pipeVars, log, turn>>

\* handle_tts_flush takes a TTS_FLUSH
MinimaxHandleTtsFlush(outcome) ==
    /\ mx.tf = "idle" /\ mx.flush_inbox # <<>>
    /\ mx' = handle_tts_flush([mx EXCEPT !.flush_inbox = Tail(@),
                                         !.flush_turn = Head(mx.flush_inbox)], outcome)
    /\ UNCHANGED <<abuseVars, messages, sup, drv, el, reset_at, lateVars, pipeVars, log, turn>>

\* _start_task returns to the suspended send_text. Woken by the event it
\* sends task_continue, and reconnects first when the socket was closed
\* meanwhile; after ten seconds without the event it gives the text up.
MinimaxStartReturns(outcome) ==
    /\ mx.flush.by # "none"
    /\ LET by == mx.flush.by
           m == [mx EXCEPT !.flush = NoFlush]
           sent == IF ~mx.flush.woken THEN m
                   ELSE IF m.websocket \in m.open
                        THEN task_continue(m, mx.flush.toks, mx.flush.turn)
                   ELSE Minimax_send_text(
                            [m EXCEPT !.is_connected = FALSE, !.is_task_started = FALSE],
                            by, mx.flush.toks, mx.flush.turn, outcome)
       IN  mx' = IF sent.flush.by # "none" THEN sent
                 ELSE Resume([sent EXCEPT !.is_processing = FALSE], by, outcome)
    /\ UNCHANGED <<abuseVars, messages, sup, drv, el, reset_at, lateVars, pipeVars, log, turn>>

\* handle_clear_buffer takes a CLEAR_EXISTING_BUFFER: it empties the buffer
\* and cancels the timer; when connected it calls send_text("", flush=True),
\* a TypeError, which ends the handler and, through gather, run_async:
\* close_connection. The other two handlers go on.
MinimaxHandleClear ==
    /\ mx.tc = "idle" /\ mx.clear_inbox > 0
    /\ LET c == [mx EXCEPT !.clear_inbox = @ - 1, !.word_buffer = EmptyWords,
                           !.buffer_timer = FALSE,
                           !.buffered = @ \ mx.word_buffer.toks]
       IN  mx' = IF ~c.is_connected THEN c
                 ELSE IF c.run = "serving"
                      THEN [close_connection(c) EXCEPT !.tc = "dead", !.run = "stopped",
                                                       !.clear_inbox = 0]
                 ELSE [c EXCEPT !.tc = "dead", !.clear_inbox = 0]
    /\ UNCHANGED <<abuseVars, messages, sup, drv, el, reset_at, lateVars, pipeVars, log, turn>>

\* _listen_for_audio reads task_started
ProviderTaskStarted ==
    /\ mx.listeners > 0 /\ mx.unconfirmed > 0
    /\ mx' = [mx EXCEPT !.unconfirmed = @ - 1, !.is_task_started = TRUE,
                        !.event = TRUE,
                        !.wire = Append(@, Frame("task_started", 0, {}, mx.websocket)),
                        !.flush.woken = @ \/ (mx.flush.by # "none"
                                              /\ mx.flush.sock = mx.websocket)]
    /\ UNCHANGED <<abuseVars, messages, sup, drv, el, reset_at, lateVars, pipeVars, log, turn>>

\* _listen_for_audio reads the last audio message of a text, is_final: the
\* audio is broadcast, is_task_started and the event are cleared, the
\* listener goes on
ProviderFinal ==
    /\ mx.listeners > 0 /\ mx.rendering > 0
    /\ mx' = [mx EXCEPT !.rendering = @ - 1, !.is_task_started = FALSE,
                        !.event = FALSE,
                        !.wire = Append(@, Frame("is_final", 0, {}, mx.websocket))]
    /\ UNCHANGED <<abuseVars, messages, sup, drv, el, reset_at, lateVars, pipeVars, log, turn>>

\* _listen_for_audio reads task_failed: it breaks, and its finally marks the
\* client disconnected; the socket is not closed
ProviderTaskFailed ==
    /\ mx.listeners > 0 /\ mx.unconfirmed + mx.rendering > 0
    /\ mx' = [mx EXCEPT !.listeners = @ - 1, !.is_connected = FALSE,
                        !.is_task_started = FALSE, !.stopped_by = "task_failed"]
    /\ UNCHANGED <<abuseVars, messages, sup, drv, el, reset_at, lateVars, pipeVars, log, turn>>

\* the provider closes socket k: a listener reading it gets ConnectionClosed
\* and breaks
ProviderCloses(k) ==
    /\ k \in mx.open
    /\ mx' = IF k = mx.websocket /\ mx.listeners > 0
             THEN [mx EXCEPT !.open = @ \ {k}, !.listeners = @ - 1,
                             !.is_connected = FALSE, !.is_task_started = FALSE,
                             !.stopped_by = "ConnectionClosed"]
             ELSE [mx EXCEPT !.open = @ \ {k}]
    /\ UNCHANGED <<abuseVars, messages, sup, drv, el, reset_at, lateVars, pipeVars, log, turn>>

\* One TextToSpeechMinimax client over the turns of a conversation.
InitMinimax == InitCommon({<<0, 0>>}, {FALSE}) /\ InitExt({FALSE}, {<<>>})

NextMinimax ==
    \/ \E outcome \in ConnectOutcomes : MinimaxRun(outcome)
    \/ \E w \in MinimaxTokens : MinimaxToken(w)
    \/ MinimaxTurnEnds
    \/ \E outcome \in ConnectOutcomes : MinimaxHandleText(outcome)
    \/ MinimaxTimerFlush
    \/ \E outcome \in ConnectOutcomes : MinimaxHandleTtsFlush(outcome)
    \/ \E outcome \in ConnectOutcomes : MinimaxStartReturns(outcome)
    \/ MinimaxHandleClear
    \/ ProviderTaskStarted
    \/ ProviderFinal
    \/ ProviderTaskFailed
    \/ \E k \in 1..MaxSockets : ProviderCloses(k)

SpecMinimax == InitMinimax /\ [][NextMinimax]_vars

\* --------------------------------------------- TextToSpeechElevenLabs
\* connect_websocket: it returns at once when is_connected; otherwise it
\* opens a socket, marks the client connected, sends the initial message and
\* creates a _listen_for_audio task
ElevenLabs_connect_websocket(e, outcome) ==
    IF e.is_connected \/ outcome = "error" \/ e.opened >= MaxSockets THEN e
    ELSE [e EXCEPT !.websocket = e.opened + 1, !.opened = @ + 1,
                   !.open = @ \cup {e.opened + 1}, !.is_connected = TRUE,
                   !.listeners = @ + 1, !.texts = 0, !.ended = FALSE]

\* run_async: the initial connect_websocket, then the handlers
ElevenLabsRun(outcome) ==
    /\ el.run = "connect"
    /\ LET c == ElevenLabs_connect_websocket(el, outcome)
       IN  el' = [c EXCEPT !.run = IF c.is_connected THEN "serving" ELSE "failed"]
    /\ UNCHANGED <<abuseVars, messages, sup, drv, mx, reset_at, lateVars, pipeVars, log, turn>>

\* _flush_buffer hands a text to send_text: connect if not connected, send
ElevenLabsSendText(outcome) ==
    /\ el.run = "serving" /\ el.sent < MaxTokens
    /\ LET c == ElevenLabs_connect_websocket(el, outcome)
       IN  el' = IF c.is_connected THEN [c EXCEPT !.sent = @ + 1, !.texts = @ + 1]
                 ELSE [c EXCEPT !.sent = @ + 1]
    /\ UNCHANGED <<abuseVars, messages, sup, drv, mx, reset_at, lateVars, pipeVars, log, turn>>

\* handle_tts_flush with an empty buffer: flush_and_end sends the empty text
\* that asks the provider to finish
ElevenLabsFlushAndEnd ==
    /\ el.run = "serving" /\ el.is_connected /\ ~el.ended
    /\ el' = [el EXCEPT !.ended = TRUE]
    /\ UNCHANGED <<abuseVars, messages, sup, drv, mx, reset_at, lateVars, pipeVars, log, turn>>

\* _listen_for_audio reads an audio message and broadcasts it
ElevenLabsAudio ==
    /\ el.listeners > 0 /\ el.texts > 0 /\ el.audio < MaxChunks
    /\ el' = [el EXCEPT !.audio = @ + 1]
    /\ UNCHANGED <<abuseVars, messages, sup, drv, mx, reset_at, lateVars, pipeVars, log, turn>>

\* _listen_for_audio reads isFinal, the end of the audio of what was sent: it
\* breaks, and its finally marks the client disconnected
ElevenLabsFinal ==
    /\ el.listeners > 0 /\ (el.texts > 0 \/ el.ended)
    /\ el' = [el EXCEPT !.listeners = @ - 1, !.is_connected = FALSE,
                        !.texts = 0, !.ended = FALSE, !.finals = @ + 1,
                        !.stopped_by = "isFinal"]
    /\ UNCHANGED <<abuseVars, messages, sup, drv, mx, reset_at, lateVars, pipeVars, log, turn>>

\* _listen_for_audio reads an error message: it breaks
ElevenLabsError ==
    /\ el.listeners > 0 /\ el.texts > 0
    /\ el' = [el EXCEPT !.listeners = @ - 1, !.is_connected = FALSE,
                        !.stopped_by = "error"]
    /\ UNCHANGED <<abuseVars, messages, sup, drv, mx, reset_at, lateVars, pipeVars, log, turn>>

\* the provider closes socket k: a listener reading it gets ConnectionClosed
\* and breaks
ElevenLabsCloses(k) ==
    /\ k \in el.open
    /\ el' = IF k = el.websocket /\ el.listeners > 0
             THEN [el EXCEPT !.open = @ \ {k}, !.listeners = @ - 1,
                             !.is_connected = FALSE,
                             !.stopped_by = "ConnectionClosed"]
             ELSE [el EXCEPT !.open = @ \ {k}]
    /\ UNCHANGED <<abuseVars, messages, sup, drv, mx, reset_at, lateVars, pipeVars, log, turn>>

\* One TextToSpeechElevenLabs client and its provider.
InitElevenLabs == InitCommon({<<0, 0>>}, {FALSE}) /\ InitExt({FALSE}, {<<>>})

NextElevenLabs ==
    \/ \E outcome \in {"connected", "error"} : ElevenLabsRun(outcome)
    \/ \E outcome \in {"connected", "error"} : ElevenLabsSendText(outcome)
    \/ ElevenLabsFlushAndEnd
    \/ ElevenLabsAudio
    \/ ElevenLabsFinal
    \/ ElevenLabsError
    \/ \E k \in 1..MaxSockets : ElevenLabsCloses(k)

SpecElevenLabs == InitElevenLabs /\ [][NextElevenLabs]_vars

\* ------------------------------------------------------ session start
\* the repository calls of initialize() after the abuse check
InitializeCalls == {"create_session", "increment_daily_session_count",
                    "get_user_usage_summary"}

\* initialize() when the given repository call raises: the calls before it
\* have been made, the except branch prints and returns an unlimited summary,
\* the tracker stays as __init__ built it
InitializeFails(s, call) ==
    /\ phase[s] = "new" /\ enabled
    /\ phase' = [phase EXCEPT ![s] = "running"]
    /\ IF call = "create_session"
       THEN UNCHANGED <<dbSess, starts>>
       ELSE /\ dbSess' = create_session(dbSess, s)
            /\ starts' = Append(starts, clock)
    /\ UNCHANGED <<abuse_on, clock, det, acts, abuseEvents, sessVars, enabled,
                   today, tr, tts, ready, tasks, log, dbDaily, dbMonthly,
                   limitEvents, nchunks, calls, landed, base, verdict, turn,
                   llm, dg>>

\* the client connects again with the session_id of a session that has ended:
\* websocket_endpoint takes it as guid and builds a new tracker, whose
\* initialize() calls create_session; insert_one raises DuplicateKeyError on
\* the unique index of session_id, and the except branch returns an unlimited
\* summary
Reconnect(s) ==
    /\ phase[s] = "ended" /\ enabled /\ dbSess[s].exists
    /\ Cardinality({i \in DOMAIN log[s] : log[s][i].type = "CALL_ENDED"})
          <= MaxReconnects
    /\ phase' = [phase EXCEPT ![s] = "running"]
    /\ tr' = [tr EXCEPT ![s] = NewTracker]
    /\ UNCHANGED <<abuseVars, sessVars, enabled, today, tts, ready, tasks, log,
                   dbSess, dbDaily, dbMonthly, limitEvents, nchunks, calls,
                   landed, base, verdict, turn, llm, dg>>

\* A user's session that starts, ends and is connected to again.
InitStart == InitCommon(InitUsage, {TRUE}) /\ InitExt({FALSE}, {<<>>})

NextStart ==
    \/ Initialize(1)
    \/ \E call \in InitializeCalls : InitializeFails(1, call)
    \/ EndSession(1)
    \/ Reconnect(1)
    \/ \E n \in ChunkBytes : TrackCall(1, n)
    \/ \E t \in tasks : DbSession(t)
    \/ \E t \in tasks : DbDaily(t)
    \/ \E t \in tasks : DbMonthly(t)
    \/ \E t \in tasks : RecordLimit(t)

SpecStart == InitStart /\ [][NextStart]_vars

\* ---------------------------------------------------- VoiceUsageHandler
\* The config a handler is built with (__init__ reads its limits from it),
\* in seconds.
HandlerConfig ==
    [session_limit |-> 3, daily_limit |-> 4, monthly_limit |-> 6,
     abuse_continuous_threshold |-> 4, abuse_session_count |-> 1,
     abuse_long_session_threshold |-> 2]

\* The repository a handler is given: "src" is VoiceUsageRepository as
\* defined in voice_usage_repository.py, which has none of get_daily_total,
\* get_monthly_total, create_voice_session, add_voice_seconds,
\* update_voice_session, get_long_session_count, add_abuse_flag, so that each
\* of these calls raises AttributeError; "stub" is an object that answers
\* them all.
Repositories == {"src", "stub"}
\* (daily, monthly) totals the stub answers _load_initial_stats with
HandlerUsage == {<<0, 0>>, <<2, 2>>, <<4, 4>>, <<0, 6>>}
\* the seconds _add_usage is called with on the object itself
DirectSeconds == {1, 3}
\* what get_long_session_count answers
LongSessionCounts == {0, 1}

\* a message of the handler: its type, and limit_type / limit_reached and
\* is_voice_disabled of its data
HandlerMsg(type, limit_type, disabled) ==
    [type |-> type, limit_type |-> limit_type, is_voice_disabled |-> disabled]

\* the limit check_limits finds for the three counters
LimitKind(session, daily, monthly) ==
    IF session >= HandlerConfig.session_limit THEN "session"
    ELSE IF daily >= HandlerConfig.daily_limit THEN "daily"
    ELSE IF monthly >= HandlerConfig.monthly_limit THEN "monthly"
    ELSE "none"

\* _enforce_limit(limit_type): the two fields, update_voice_session, then the
\* broadcast, which the AttributeError of the repository of src prevents
enforce_limit(h, limit_type) ==
    LET d == [h EXCEPT !.is_voice_disabled = TRUE,
                       !.limit_reached_type = limit_type]
    IN  IF h.repository = "src" THEN d
        ELSE [d EXCEPT !.sent =
                 Append(@, HandlerMsg("VOICE_LIMIT_REACHED", limit_type, TRUE))]

\* check_limits()
Handler_check_limits(h) ==
    IF h.is_voice_disabled THEN h
    ELSE LET k == LimitKind(h.session_voice_seconds, h.daily_seconds,
                            h.monthly_seconds)
         IN  IF k = "none" THEN h ELSE enforce_limit(h, k)

\* _flag_abuse(abuse_type, message)
flag_abuse(h, abuse_type) ==
    [h EXCEPT !.abuse_detected = TRUE, !.abuse_type = abuse_type,
              !.sent = Append(@, HandlerMsg("VOICE_ABUSE_DETECTED", "none",
                                            h.is_voice_disabled))]

\* _add_usage(seconds) up to its first repository call: the counters are
\* added, then add_voice_seconds raises (repository of src) or is awaited
add_usage_start(h, seconds) ==
    LET c == [s |-> seconds,
              before |-> <<h.session_voice_seconds, h.daily_seconds,
                           h.monthly_seconds>>,
              disabled |-> h.is_voice_disabled,
              from |-> Len(h.sent), to |-> Len(h.sent),
              outcome |-> IF h.repository = "src" THEN "raised" ELSE "pending",
              after |-> <<h.session_voice_seconds + seconds,
                          h.daily_seconds + seconds, h.monthly_seconds + seconds>>,
              disabled_after |-> h.is_voice_disabled,
              type_after |-> h.limit_reached_type]
    IN  [h EXCEPT !.session_voice_seconds = @ + seconds,
                  !.daily_seconds = @ + seconds,
                  !.monthly_seconds = @ + seconds,
                  !.pc = IF h.repository = "src" THEN "idle" ELSE "adding",
                  !.call = c]

\* _add_usage after its repository calls: the long-session check with the
\* count the repository answered, check_limits(), _broadcast_update()
add_usage_finish(h, count) ==
    LET a == IF /\ h.call.s > HandlerConfig.abuse_long_session_threshold
                /\ count >= HandlerConfig.abuse_session_count
             THEN flag_abuse(h, "session_spam") ELSE h
        l == Handler_check_limits(a)
        u == [l EXCEPT !.sent =
                 Append(@, HandlerMsg("VOICE_USAGE_UPDATE", l.limit_reached_type,
                                      l.is_voice_disabled))]
    IN  [u EXCEPT !.pc = "idle", !.call.outcome = "returned",
                  !.call.to = Len(u.sent),
                  !.call.after = <<u.session_voice_seconds, u.daily_seconds,
                                   u.monthly_seconds>>,
                  !.call.disabled_after = u.is_voice_disabled,
                  !.call.type_after = u.limit_reached_type]

\* VoiceUsageHandler(guid, dispatcher, repository, user_id, config)
HandlerConstruct(repo) ==
    /\ vh.run = "none"
    /\ vh' = [vh EXCEPT !.run = "new", !.repository = repo]
    /\ UNCHANGED <<abuseVars, messages, sup, drv, mx, el, reset_at, fin, cn, pipeVars, log, turn>>

\* run_async(): _load_initial_stats (the totals, check_limits) and
\* create_voice_session, then the three loops are started
HandlerRun(u) ==
    /\ vh.run = "new" /\ vh.pc = "idle"
    /\ vh' = IF vh.repository = "src" THEN [vh EXCEPT !.run = "crashed"]
             ELSE [Handler_check_limits([vh EXCEPT !.daily_seconds = u[1],
                                                   !.monthly_seconds = u[2]])
                      EXCEPT !.run = "running"]
    /\ UNCHANGED <<abuseVars, messages, sup, drv, mx, el, reset_at, fin, cn, pipeVars, log, turn>>

\* _add_usage(seconds) called on a handler that was built and not run
HandlerAddUsage(seconds) ==
    /\ vh.run = "new" /\ vh.pc = "idle" /\ vh.direct < MaxDirect
    /\ vh' = [add_usage_start(vh, seconds) EXCEPT !.direct = @ + 1]
    /\ UNCHANGED <<abuseVars, messages, sup, drv, mx, el, reset_at, fin, cn, pipeVars, log, turn>>

\* handle_speech_detected: one SPEECH_DETECTED message
SpeechDetected ==
    /\ vh.run = "running" /\ vh.speech_segments < MaxSegments
    /\ vh' = IF vh.is_voice_disabled THEN vh
             ELSE [vh EXCEPT !.is_speaking = TRUE, !.speech_start_time = vh.now]
    /\ vh' # vh
    /\ UNCHANGED <<abuseVars, messages, sup, drv, mx, el, reset_at, fin, cn, pipeVars, log, turn>>

\* handle_speech_ended: one SPEECH_ENDED message, taken when the loop is not
\* inside _add_usage
SpeechEnded ==
    /\ vh.run = "running" /\ vh.pc = "idle"
    /\ vh.is_speaking /\ vh.speech_start_time # -1
    /\ vh' = add_usage_start([vh EXCEPT !.is_speaking = FALSE,
                                        !.speech_start_time = -1,
                                        !.speech_segments = @ + 1],
                             vh.now - vh.speech_start_time)
    /\ UNCHANGED <<abuseVars, messages, sup, drv, mx, el, reset_at, fin, cn, pipeVars, log, turn>>

\* the repository calls of _add_usage return
AddUsageReturns(count) ==
    /\ vh.pc = "adding"
    /\ vh' = add_usage_finish(vh, count)
    /\ UNCHANGED <<abuseVars, messages, sup, drv, mx, el, reset_at, fin, cn, pipeVars, log, turn>>

\* monitor_continuous_speech: one pass of the loop, made once a second
MonitorPass ==
    /\ vh.run = "running" /\ vh.monitored_at < vh.now
    /\ LET cur == vh.now - vh.speech_start_time
           m == [vh EXCEPT !.monitored_at = vh.now]
           a == IF cur > HandlerConfig.abuse_continuous_threshold /\ ~m.abuse_detected
                THEN flag_abuse(m, "continuous_usage") ELSE m
       IN  vh' = IF vh.is_speaking /\ vh.speech_start_time # -1
                 THEN IF vh.session_voice_seconds + cur > HandlerConfig.session_limit
                      THEN enforce_limit(a, "session") ELSE a
                 ELSE m
    /\ UNCHANGED <<abuseVars, messages, sup, drv, mx, el, reset_at, fin, cn, pipeVars, log, turn>>

\* a second passes
HandlerTick ==
    /\ vh.run = "running" /\ vh.now < MaxHandlerSeconds
    /\ vh' = [vh EXCEPT !.now = @ + 1]
    /\ UNCHANGED <<abuseVars, messages, sup, drv, mx, el, reset_at, fin, cn, pipeVars, log, turn>>

\* One handler, called as the tests call it or run with its three loops.
InitHandler == InitCommon({<<0, 0>>}, {FALSE}) /\ InitExt({FALSE}, {<<>>})

NextHandler ==
    \/ \E repo \in Repositories : HandlerConstruct(repo)
    \/ \E u \in HandlerUsage : HandlerRun(u)
    \/ \E s \in DirectSeconds : HandlerAddUsage(s)
    \/ SpeechDetected
    \/ SpeechEnded
    \/ \E n \in LongSessionCounts : AddUsageReturns(n)
    \/ MonitorPass
    \/ HandlerTick

SpecHandler == InitHandler /\ [][NextHandler]_vars

\* ------------------------------------------------------ the end of a session
\* check_session_end: long_session_threshold_hours
long_session_threshold_hours == 2

\* Seconds a period of the session lasts, and the milliseconds of voice the
\* tracker may add to the row in one period (what the limits read from the
\* environment let through).
PeriodSeconds == {3600, 3601}
PeriodVoiceMs == {0, 1800000, 3600000}

\* check_session_end: avg_activity_rate = duration_ms / session_duration / 1000
\* is above 0.5
HighActivity(session, session_duration) ==
    session.duration_ms * 2 > session_duration * 1000

TeardownUnchanged ==
    UNCHANGED <<abuseVars, messages, sup, drv, mx, el, reset_at, vh, cn, pipeVars, log, turn>>

\* websocket_endpoint builds the tracker and initialize() creates the row
\* (on: VOICE_USAGE_ENABLED; abuse: VOICE_ABUSE_DETECTION_ENABLED)
TrackerStarts(on, abuse) ==
    /\ fin.stage = "new"
    /\ fin' = [fin EXCEPT !.stage = "running", !.enabled = on,
                          !.detector = on /\ abuse,
                          !.row = IF on THEN create_session([x \in {1} |-> NoRow], 1)[1]
                                  ELSE NoRow]
    /\ TeardownUnchanged

\* dt seconds of the session pass, in which chunks of ms milliseconds in all
\* are tracked: update_session_usage on the row
Serve(dt, ms) ==
    /\ fin.stage = "running"
    /\ \A c \in EndCallers : fin.call[c].pc = "none"
    /\ fin.elapsed + dt <= MaxSessionSeconds
    /\ ms <= dt * 1000
    /\ fin' = [fin EXCEPT !.elapsed = @ + dt,
                          !.row = IF ms > 0 /\ fin.enabled
                                  THEN update_session_usage([x \in {1} |-> fin.row], 1, ms).rows[1]
                                  ELSE @]
    /\ TeardownUnchanged

\* end_session up to its first await: returns when the tracker is not enabled;
\* check_session_end returns when the session is not longer than the
\* threshold, else awaits get_session
end_session_start(f, c) ==
    IF ~f.enabled
    THEN [f EXCEPT !.call[c].pc = "done"]
    ELSE IF f.detector /\ f.elapsed > long_session_threshold_hours * 3600
    THEN [f EXCEPT !.call[c].pc = "get_session", !.call[c].session_duration = f.elapsed]
    ELSE [f EXCEPT !.call[c].pc = "end"]

\* caller c (the interceptor's finally, the endpoint's finally) calls
\* end_session
EndSessionCalled(c) ==
    /\ fin.stage = "running"
    /\ fin.call[c].pc = "none"
    /\ fin' = end_session_start(fin, c)
    /\ TeardownUnchanged

\* get_session returns the row, whatever is_active is: the event is recorded
\* when the row has chunks and the activity rate is high
GetSessionReturns(c) ==
    /\ fin.call[c].pc = "get_session"
    /\ fin' = [fin EXCEPT !.call[c].session = fin.row,
                          !.call[c].pc =
                             IF /\ fin.row.exists
                                /\ fin.row.chunk_count > 0
                                /\ HighActivity(fin.row, fin.call[c].session_duration)
                             THEN "record" ELSE "end"]
    /\ TeardownUnchanged

\* _record_abuse_event: record_abuse_event's insert (ok: it worked; its
\* exception is caught there)
RecordEventReturns(c, ok) ==
    /\ fin.call[c].pc = "record"
    /\ fin' = [fin EXCEPT !.events = IF ok THEN @ + 1 ELSE @,
                          !.call[c].pc = "end"]
    /\ TeardownUnchanged

\* repository.end_session: is_active and ended_at are set on the active row
RepositoryEndReturns(c) ==
    /\ fin.call[c].pc = "end"
    /\ fin' = [fin EXCEPT !.row = repo_end_session([x \in {1} |-> fin.row], 1)[1],
                          !.stamps = IF fin.row.exists /\ fin.row.is_active
                                     THEN @ + 1 ELSE @,
                          !.call[c].pc = "done"]
    /\ TeardownUnchanged

InitTeardown == InitCommon({<<0, 0>>}, {TRUE}) /\ InitExt({TRUE}, {<<>>})

NextTeardown ==
    \/ \E on \in BOOLEAN, abuse \in BOOLEAN : TrackerStarts(on, abuse)
    \/ \E dt \in PeriodSeconds, ms \in PeriodVoiceMs : Serve(dt, ms)
    \/ \E c \in EndCallers : EndSessionCalled(c)
    \/ \E c \in EndCallers : GetSessionReturns(c)
    \/ \E c \in EndCallers, ok \in BOOLEAN : RecordEventReturns(c, ok)
    \/ \E c \in EndCallers : RepositoryEndReturns(c)

SpecTeardown == InitTeardown /\ [][NextTeardown]_vars

\* ------------------------------------------------- connect_websocket
\* TextToSpeechMinimax.__init__, TextToSpeechElevenLabs.__init__
max_connection_attempts == 3

TtsKinds == {"minimax", "elevenlabs"}

ConnectionUnchanged ==
    UNCHANGED <<abuseVars, messages, sup, drv, mx, el, reset_at, vh, fin, pipeVars, log, turn>>

\* a call of caller c may begin: c is in no call, and in the Minimax client no
\* other task is in one (its flushes exclude each other through
\* is_processing, and its handle_clear_buffer raises before it sends)
MayCall(c) ==
    /\ cn.kind # "none"
    /\ cn.calls < MaxCalls
    /\ cn.call[c].pc \in {"idle", "returned"}
    /\ cn.kind = "minimax" => \A o \in ConnectCallers : cn.call[o].pc \in {"idle", "returned"}

\* the client is built
ClientBuilt(kind) ==
    /\ cn.kind = "none"
    /\ cn' = [cn EXCEPT !.kind = kind]
    /\ ConnectionUnchanged

\* run_async or the send_text of a flush finds the client not connected and
\* calls connect_websocket, which passes its is_connected test and awaits
\* websockets.connect (handle_clear_buffer sends only when connected)
ConnectCalled(c) ==
    /\ MayCall(c)
    /\ ~cn.is_connected
    /\ c = "flush"
    /\ cn' = [cn EXCEPT !.calls = @ + 1,
                        !.call[c] = [NoConnectCall EXCEPT !.pc = "connecting"]]
    /\ ConnectionUnchanged

\* send_text's websocket.send raises ConnectionClosed before the listener has
\* run: is_connected is cleared and connect_websocket called
SendFindsClosed(c) ==
    /\ MayCall(c)
    /\ cn.is_connected /\ ~cn.open
    /\ c = "clear" => cn.kind = "elevenlabs"
    /\ cn' = [cn EXCEPT !.is_connected = FALSE, !.calls = @ + 1,
                        !.call[c] = [NoConnectCall EXCEPT !.pc = "connecting"]]
    /\ ConnectionUnchanged

\* the except branch of connect_websocket: is_connected is cleared,
\* connection_attempts counted, and the call sleeps before it calls itself
\* again or returns False
attempt_failed(k, c) ==
    LET n == k.connection_attempts + 1
    IN  [k EXCEPT !.is_connected = FALSE, !.connection_attempts = n,
                  !.call[c].attempts = @ + 1,
                  !.call[c].pc = IF n < max_connection_attempts THEN "sleeping"
                                 ELSE "returned",
                  !.call[c].result = IF n < max_connection_attempts THEN @ ELSE "False"]

\* the try block past websockets.connect (and, for Minimax, the
\* acknowledgement): connected, the counter reset, one listener created,
\* True returned
attempt_succeeded(k, c) ==
    [k EXCEPT !.is_connected = TRUE, !.connection_attempts = 0,
              !.open = TRUE, !.opened = @ + 1, !.listeners = @ + 1,
              !.call[c].attempts = @ + 1, !.call[c].started = @ + 1,
              !.call[c].pc = "returned", !.call[c].result = "True",
              !.call[c].connected = TRUE]

\* the connection attempt of call c ends. Minimax answers the connection
\* with an event: one that is not connected_success makes the call return
\* False, with the socket kept in self.websocket.
AttemptReturns(c, outcome) ==
    /\ cn.call[c].pc = "connecting"
    /\ outcome = "refused" => cn.kind = "minimax"
    /\ outcome # "error" => cn.opened < MaxSockets
    /\ cn' = CASE outcome = "connected_success" -> attempt_succeeded(cn, c)
               [] outcome = "refused" ->
                     [cn EXCEPT !.open = TRUE, !.opened = @ + 1,
                                !.call[c].attempts = @ + 1,
                                !.call[c].pc = "returned", !.call[c].result = "False",
                                !.call[c].connected = cn.is_connected]
               [] OTHER -> attempt_failed(cn, c)
    /\ ConnectionUnchanged

\* asyncio.sleep(2) is over and the call calls connect_websocket again: True
\* at once when the client is connected, else the next attempt
SleepEnds(c) ==
    /\ cn.call[c].pc = "sleeping"
    /\ cn' = IF cn.is_connected
             THEN [cn EXCEPT !.call[c].pc = "returned", !.call[c].result = "True",
                             !.call[c].connected = TRUE]
             ELSE [cn EXCEPT !.call[c].pc = "connecting"]
    /\ ConnectionUnchanged

\* the provider closes the socket in self.websocket
ConnectionDrops ==
    /\ cn.open /\ cn.is_connected
    /\ cn' = [cn EXCEPT !.open = FALSE]
    /\ ConnectionUnchanged

\* a _listen_for_audio task gets ConnectionClosed from recv and breaks; its
\* finally clears is_connected
ListenerStops ==
    /\ cn.listeners > 0 /\ ~cn.open
    /\ cn' = [cn EXCEPT !.listeners = @ - 1, !.is_connected = FALSE]
    /\ ConnectionUnchanged

InitConnection == InitCommon({<<0, 0>>}, {FALSE}) /\ InitExt({FALSE}, {<<>>})

NextConnection ==
    \/ \E kind \in TtsKinds : ClientBuilt(kind)
    \/ \E c \in ConnectCallers : ConnectCalled(c)
    \/ \E c \in ConnectCallers : SendFindsClosed(c)
    \/ \E c \in ConnectCallers, outcome \in ConnectOutcomes : AttemptReturns(c, outcome)
    \/ \E c \in ConnectCallers : SleepEnds(c)
    \/ ConnectionDrops
    \/ ListenerStops

SpecConnection == InitConnection /\ [][NextConnection]_vars

\* ------------------------------------------------------------------ claims
LimitOf(p) == CASE p = "session" -> session_limit_ms
                [] p = "daily" -> daily_limit_ms
                [] p = "monthly" -> monthly_limit_ms
WarningOf(p) == CASE p = "session" -> session_warning_ms
                  [] p = "daily" -> daily_warning_ms
                  [] p = "monthly" -> monthly_warning_ms
Periods == {"session", "daily", "monthly"}

\* positions of log[s] holding a message of the given type and argument
Positions(s, type, arg) ==
    {i \in DOMAIN log[s] : log[s][i].type = type /\ log[s][i].arg = arg}

\* C1 (as claimed): once voice_enabled has become false (the tracker sets it
\* right before it publishes VOICE_LIMIT_REACHED, in _add_usage or in
\* initialize), no audio message is published for the session until it ends.
C1_NoAudioAfterVoiceDisabled ==
    \A s \in Sessions : \A i, j \in DOMAIN log[s] :
        (/\ i < j
         /\ log[s][i].type = "VOICE_LIMIT_REACHED"
         /\ log[s][j].type = "CALL_WEBSOCKET_PUT")
        => \E k \in DOMAIN log[s] : i < k /\ k < j /\ log[s][k].type = "CALL_ENDED"

\* the periods whose counter was at or over its limit when call c returned
Exceeded(c) == {p \in Periods : calls[c].after[p] >= LimitOf(p)}

\* C4: a track_audio_chunk call whose chunk makes a counter reach its limit
\* has, by its return, set voice_enabled false and limit_reached to an
\* exceeded kind, published VOICE_LIMIT_REACHED with that kind immediately
\* followed by VOICE_DISABLED with that kind as reason, and returns False.
C4_LimitReachedEffects ==
    \A c \in Chunks :
        (calls[c].entered /\ Exceeded(c) # {}) =>
            LET s == calls[c].s
                kind == tr[s].limit_reached
            IN  /\ calls[c].ret = "deny"
                /\ ~tr[s].voice_enabled
                /\ kind \in Exceeded(c)
                /\ \E i \in DOMAIN log[s] :
                      /\ i + 1 \in DOMAIN log[s]
                      /\ log[s][i] = Msg("VOICE_LIMIT_REACHED", kind, c)
                      /\ log[s][i + 1] = Msg("VOICE_DISABLED", kind, c)

\* C4 witness: a call that ran _add_usage brought the daily counter to its
\* limit while the session counter was below its own.
C4_Witness ==
    \E c \in Chunks :
        /\ calls[c].entered
        /\ calls[c].after.daily >= daily_limit_ms
        /\ calls[c].after.session < session_limit_ms
        /\ calls[c].after.daily - calls[c].dur < daily_limit_ms

\* session usage before call c added its chunk
SessionBefore(c) == calls[c].after.session - calls[c].dur

\* the session warning is published by the call in which session usage
\* first reaches 48,000 ms
C6_WarningAt48000 ==
    \A s \in Sessions :
        /\ \A i \in Positions(s, "VOICE_USAGE_WARNING", "session") :
              LET c == log[s][i].c
              IN  /\ c \in Chunks
                  /\ SessionBefore(c) < 48000
                  /\ calls[c].after.session >= 48000
        /\ \A c \in Chunks :
              (calls[c].s = s /\ calls[c].entered /\ calls[c].after.session >= 48000)
              => Positions(s, "VOICE_USAGE_WARNING", "session") # {}

\* a session VOICE_LIMIT_REACHED is followed by VOICE_DISABLED and preceded
\* by a session VOICE_USAGE_WARNING
C6_LimitAfterWarning ==
    \A s \in Sessions : \A i \in Positions(s, "VOICE_LIMIT_REACHED", "session") :
        /\ i + 1 \in DOMAIN log[s]
        /\ log[s][i + 1] = Msg("VOICE_DISABLED", "session", log[s][i].c)
        /\ \E j \in Positions(s, "VOICE_USAGE_WARNING", "session") : j < i

\* C6 (as claimed): with a 1-minute session limit the session warning is
\* published when usage first reaches 48,000 ms, a session limit announcement
\* is always preceded by the session warning, and the announcement is caused
\* by the next chunk after 60,000 ms have been accumulated.
C6_LimitByNextChunk ==
    /\ C6_WarningAt48000
    /\ C6_LimitAfterWarning
    /\ \A s \in Sessions : \A i \in Positions(s, "VOICE_LIMIT_REACHED", "session") :
          LET c == log[s][i].c
          IN  c \in Chunks /\ SessionBefore(c) >= 60000

\* C6 (amended): as above, but the (first) announcement is caused by the chunk
\* that brings the accumulated session usage to 60,000 ms or more, and every
\* call that does so is followed by the announcement.
C6_LimitByReachingChunk ==
    /\ C6_WarningAt48000
    /\ C6_LimitAfterWarning
    /\ \A s \in Sessions :
          /\ \A i \in Positions(s, "VOICE_LIMIT_REACHED", "session") :
                (\A j \in Positions(s, "VOICE_LIMIT_REACHED", "session") : i <= j) =>
                    LET c == log[s][i].c
                    IN  /\ c \in Chunks
                        /\ SessionBefore(c) < 60000
                        /\ calls[c].after.session >= 60000
          /\ \A c \in Chunks :
                (calls[c].s = s /\ calls[c].entered /\ calls[c].after.session >= 60000)
                => Positions(s, "VOICE_LIMIT_REACHED", "session") # {}

\* C6 witness: the session warning was published at exactly 48,000 ms by one
\* chunk and the session limit at exactly 60,000 ms by a later one.
C6_Witness ==
    \E s \in Sessions :
        \E i \in Positions(s, "VOICE_USAGE_WARNING", "session") :
        \E j \in Positions(s, "VOICE_LIMIT_REACHED", "session") :
            /\ log[s][i].c \in Chunks /\ log[s][j].c \in Chunks
            /\ log[s][i].c < log[s][j].c
            /\ calls[log[s][i].c].after.session = 48000
            /\ calls[log[s][j].c].after.session = 60000

\* the _update_database tasks of chunk c that have not finished
WritesOf(c) == {t \in tasks : t.kind = "dbwrite" /\ t.c = c}

\* C8: a chunk is counted as (decoded bytes div 32) ms, 4096 bytes as 128 ms;
\* a zero-byte chunk counts 0 ms, leaves the counters as they were and any
\* write made for it adds nothing to a persisted duration.
C8_DurationIsBytesDiv32 ==
    \A c \in Chunks : calls[c].entered =>
        /\ calls[c].dur = calls[c].bytes \div 32
        /\ (calls[c].bytes = 4096 => calls[c].dur = 128)
        /\ (calls[c].bytes = 0 =>
               /\ calls[c].dur = 0
               /\ \A t \in WritesOf(c) : t.ms = 0)

\* C8 witness: a 4096-byte chunk was counted and a zero-byte chunk was
\* counted and its write has run.
C8_Witness ==
    /\ \E c \in Chunks : calls[c].entered /\ calls[c].bytes = 4096
    /\ \E c \in Chunks :
          /\ calls[c].entered /\ calls[c].bytes = 0
          /\ calls[c].ret = "allow" /\ WritesOf(c) = {}

\* chunks of session s the TTS client handed to the tracker
Observed(s) == {c \in Chunks : calls[c].s = s /\ calls[c].forwarded}

\* session s is over and nothing of it is left to run
Quiescent(s) == phase[s] = "ended" /\ ready = <<>> /\ tasks = {}

\* C9 (as claimed): when a session is over and no write is pending, the sum
\* over the chunks its TTS client observed of (bytes div 32) equals the
\* session row's duration_ms.
C9_ObservedEqualsPersisted ==
    \A s \in Sessions : Quiescent(s) =>
        SumOver([c \in Chunks |-> calls[c].bytes \div 32], Observed(s))
            = dbSess[s].duration_ms

\* C3: both limit evaluations return session whenever the session counter is
\* at or over its limit, daily only when the session is under and the daily
\* counter is at or over, monthly only when both are under and the monthly
\* counter is at or over, and none exactly when all three are under.
C3_LimitPriority ==
    verdict.applied =>
        LET t == tr[1]
            S == t.session_duration_ms >= 60000
            D == t.daily_duration_ms >= 180000
            M == t.monthly_duration_ms >= 300000
            expected == CASE S -> "session"
                          [] ~S /\ D -> "daily"
                          [] ~S /\ ~D /\ M -> "monthly"
                          [] ~S /\ ~D /\ ~M -> "none"
        IN  verdict.tracker = expected /\ verdict.summary = expected

\* C3 witness: both evaluations were applied to a session counter exactly at
\* its limit with the daily and monthly counters over theirs.
C3_Witness ==
    /\ verdict.applied
    /\ tr[1].session_duration_ms = 60000
    /\ tr[1].daily_duration_ms = 180000
    /\ tr[1].monthly_duration_ms = 300001

\* no call of session s before call c ran _add_usage and ended at or over the
\* warning threshold of period p
WarnedFirst(s, p, c) ==
    \A b \in Chunks :
        (b < c /\ calls[b].s = s /\ calls[b].entered)
        => calls[b].after[p] < WarningOf(p)

\* at most one warning per period, each published by a call that ran
\* _add_usage and ended at or over the threshold, no earlier such call having
\* done so
C5_WarningsWellPlaced ==
    \A s \in Sessions : \A p \in Periods :
        /\ Cardinality(Positions(s, "VOICE_USAGE_WARNING", p)) <= 1
        /\ \A i \in Positions(s, "VOICE_USAGE_WARNING", p) :
              LET c == log[s][i].c
              IN  /\ c \in Chunks
                  /\ calls[c].entered
                  /\ calls[c].after[p] >= WarningOf(p)
                  /\ WarnedFirst(s, p, c)

\* C5 (as claimed): a tracker publishes the warning of a period at most once,
\* and does so in the first track_audio_chunk call after which the period's
\* usage is at or over 0.8 x its limit.
C5_WarningInFirstCall ==
    /\ C5_WarningsWellPlaced
    /\ \A s \in Sessions : \A p \in Periods : \A c \in Chunks :
          (calls[c].s = s /\ calls[c].ret # "none" /\ calls[c].after[p] >= WarningOf(p))
          => Positions(s, "VOICE_USAGE_WARNING", p) # {}

\* C5 (amended): a tracker publishes the warning of a period at most once,
\* and does so in the first track_audio_chunk call that finds voice enabled
\* and after which the period's usage is at or over 0.8 x its limit.
C5_WarningInFirstAdmittedCall ==
    /\ C5_WarningsWellPlaced
    /\ \A s \in Sessions : \A p \in Periods : \A c \in Chunks :
          (calls[c].s = s /\ calls[c].entered /\ calls[c].after[p] >= WarningOf(p))
          => Positions(s, "VOICE_USAGE_WARNING", p) # {}

\* C5 witness: two calls ended over the daily threshold and the daily warning
\* was published by the first of them.
C5_Witness ==
    \E b, c \in Chunks :
        /\ b < c
        /\ calls[b].entered /\ calls[c].entered
        /\ calls[b].after.daily >= daily_warning_ms
        /\ Positions(1, "VOICE_USAGE_WARNING", "daily") # {}
        /\ \A i \in Positions(1, "VOICE_USAGE_WARNING", "daily") : log[1][i].c = b

\* C7: with tracking disabled every track_audio_chunk call returns allow, the
\* tracker keeps the fields it was built with, nothing of the tracker is
\* broadcast, no write is scheduled and no row is created or changed.
C7_DisabledChangesNothing ==
    ~enabled =>
        /\ \A c \in Chunks : calls[c].ret \in {"none", "allow"}
        /\ \A c \in Chunks : ~calls[c].entered
        /\ tr = [s \in Sessions |-> NewTracker]
        /\ \A s \in Sessions : \A i \in DOMAIN log[s] : log[s][i].type = "CALL_ENDED"
        /\ tasks = {}
        /\ dbSess = [s \in Sessions |-> NoRow]
        /\ dbDaily = base.daily
        /\ dbMonthly = base.monthly
        /\ limitEvents = 0

\* C7 witness: with tracking disabled a 48,000 ms chunk was allowed and the
\* session initialized and ended.
C7_Witness ==
    /\ ~enabled
    /\ phase[1] = "ended"
    /\ \E c \in Chunks : calls[c].ret = "allow" /\ calls[c].bytes = 1536000

\* C10 (as claimed): when no write is pending, the daily row of every day
\* holds what it held at the start plus the durations the session rows
\* gained on that day.
C10_DailyIsSumOfSessions ==
    (tasks = {} /\ ready = <<>>) =>
        \A d \in Days :
            dbDaily[d] = base.daily[d]
                + SumOver([s \in Sessions |-> landed[s][d]], Sessions)

\* C2 (as claimed): after FINAL_TRANSCRIPTION_CREATED number k is published,
\* no audio chunk is broadcast whose text holds a token produced before it
\* (when fewer than k transcriptions had been published).
C2_BargeInComplete ==
    \A i, j \in DOMAIN log[1] :
        (/\ i < j
         /\ log[1][i].type = "FINAL_TRANSCRIPTION_CREATED"
         /\ log[1][j].type = "CALL_WEBSOCKET_PUT")
        => calls[log[1][j].c].at >= log[1][i].c

\* C2 (as claimed), for the chunks the provider delivers after the TTS client
\* has handled the interruption and cleared the client's buffer
C2_NoStaleAudioAfterInterruption ==
    \A i, k, j \in DOMAIN log[1] :
        (/\ i < k /\ k < j
         /\ log[1][i].type = "FINAL_TRANSCRIPTION_CREATED"
         /\ log[1][k] = Msg("CLEAR_EXISTING_BUFFER", "tts_interrupt", log[1][i].c)
         /\ log[1][j].type = "CALL_WEBSOCKET_PUT")
        => calls[log[1][j].c].at >= log[1][i].c

\* ------------------------------------------------------- abuse detection
\* C12 (as claimed): a session that is the user's 11th within 300 seconds,
\* the repository working, has a rapid_reconnection event recorded with
\* session_count 11 and window_seconds 300 and ABUSE_DETECTED published, has
\* its row, and its voice is still enabled.
C12_EleventhSessionFlagged ==
    \A s \in Sessions :
        (/\ det[s].exists /\ det[s].outcome = "ok"
         /\ det[s].nth = VOICE_ABUSE_RECONNECT_THRESHOLD + 1
         /\ base.daily[0] = 0)
        => /\ \E i \in DOMAIN abuseEvents :
                 abuseEvents[i] = AbuseEvent("rapid_reconnection", s, 11, 300, 0)
           /\ \E i \in DOMAIN log[s] : log[s][i].type = "ABUSE_DETECTED"
           /\ dbSess[s].exists
           /\ tr[s].voice_enabled

\* The tracker of session 1 and what its c-th track_audio_chunk call returns
\* when abuse detection is off: initialize() loads the usage the user starts
\* with, each call refuses when voice is disabled and else adds the chunk's
\* duration and evaluates the limits.
RECURSIVE QuotaOnly(_)
QuotaOnly(c) ==
    IF c = 0
    THEN LET lim == Summary_check_limits(
                 [session_duration_ms |-> 0,
                  daily_duration_ms |-> base.daily[0],
                  monthly_duration_ms |-> base.monthly,
                  session_limit_ms |-> VOICE_LIMIT_SESSION_MINUTES * 60 * 1000,
                  daily_limit_ms |-> VOICE_LIMIT_DAILY_MINUTES * 60 * 1000,
                  monthly_limit_ms |-> VOICE_LIMIT_MONTHLY_MINUTES * 60 * 1000])
         IN  [t |-> [NewTracker EXCEPT !.daily_duration_ms = base.daily[0],
                                       !.monthly_duration_ms = base.monthly,
                                       !.voice_enabled = (lim = "none"),
                                       !.limit_reached = lim],
              ret |-> "none"]
    ELSE LET p == QuotaOnly(c - 1).t
             t2 == MarkWarnings(AddCounters(p, duration_ms(b64encode(calls[c].bytes))))
             lim == Tracker_check_limits(t2)
         IN  IF ~p.voice_enabled THEN [t |-> p, ret |-> "deny"]
             ELSE IF lim # "none"
             THEN [t |-> [t2 EXCEPT !.voice_enabled = FALSE, !.limit_reached = lim],
                   ret |-> "deny"]
             ELSE [t |-> t2, ret |-> "allow"]

C14_OneEventPerCrossing ==
    \A s \in Sessions :
        (\A i \in DOMAIN acts : acts[i].s # s) =>
            /\ Cardinality({i \in DOMAIN abuseEvents :
                               /\ abuseEvents[i].event_type = "excessive_continuous_use"
                               /\ abuseEvents[i].s = s}) + det[s].lost
                  = det[s].crossings
            /\ det[s].total_continuous_ms < continuous_threshold_ms

\* ------------------------------------------------------------- LLM driver
\* C15 (as claimed): once a FINAL_TRANSCRIPTION_CREATED is published, no
\* LLM_GENERATED_TEXT of an older turn is published: the completion in flight
\* is cancelled.
C15_InFlightStreamCancelled ==
    \A i, j \in DOMAIN log[1] :
        (/\ i < j
         /\ log[1][i].type = "FINAL_TRANSCRIPTION_CREATED"
         /\ log[1][j].type = "LLM_GENERATED_TEXT")
        => log[1][j].c >= log[1][i].c

\* C16 (as claimed): whenever the driver is between two transcripts, record 0
\* of LLM.messages is the system prompt, no later record is one, and no two
\* neighbouring records after it have the same role.
C16_HistoryAlternates ==
    drv.pc = "idle" =>
        /\ messages[1] = "system"
        /\ \A i \in 2..Len(messages) : messages[i] \in {"user", "assistant"}
        /\ \A i \in 2..(Len(messages) - 1) : messages[i] # messages[i + 1]

\* the data of the messages of the given type published for turn t, in order
Published(type, t) ==
    LET ms == SelectSeq(log[1], LAMBDA m : m.type = type /\ m.c = t)
    IN  [i \in DOMAIN ms |-> ms[i].arg]

\* C17 (as claimed): for every transcript whose completion the provider
\* finished, with or without a tool call, the LLM_GENERATED_TEXT messages of
\* the turn are the streamed words in order, exactly one TTS_FLUSH of the turn
\* is published, its data is the accumulated text, and every
\* LLM_GENERATED_TEXT of the turn precedes it.
C17_TokensThenOneFlush ==
    \A t \in 1..MaxTurns :
        drv.ends[t] \in {"stop", "tool_calls"} =>
            /\ Published("LLM_GENERATED_TEXT", t)
                  = [i \in DOMAIN drv.raw[t] |-> lower(drv.raw[t][i])]
            /\ Published("TTS_FLUSH", t)
                  = <<join(Published("LLM_GENERATED_TEXT", t))>>
            /\ \A i, j \in DOMAIN log[1] :
                  (/\ log[1][i].type = "TTS_FLUSH" /\ log[1][i].c = t
                   /\ log[1][j].type = "LLM_GENERATED_TEXT" /\ log[1][j].c = t)
                  => j < i

\* ------------------------------------------------------- session lifecycle
\* the socket manager has taken every VOICE_DISABLED published since it
\* subscribed
NothingToPut(s) ==
    \A i \in DOMAIN log[s] : i > sup[s].put_at => log[s][i].type # "VOICE_DISABLED"

\* C11 (as claimed): in a session that starts with the daily or monthly usage
\* at its limit, voice is disabled and VOICE_DISABLED is published by
\* initialize, every track_audio_chunk call returns deny, no audio is
\* broadcast, and once the session's tasks run with the socket open and the
\* socket manager has nothing left to send, the client has been sent a
\* voice_disabled frame.
C11_StartAtLimit ==
    \A s \in Sessions :
        (/\ phase[s] # "new"
         /\ \/ base.daily[0] >= daily_limit_ms
            \/ base.monthly >= monthly_limit_ms)
        => /\ ~tr[s].voice_enabled
           /\ \E i \in DOMAIN log[s] : log[s][i].type = "VOICE_DISABLED"
           /\ \A c \in Chunks : calls[c].s = s => calls[c].ret \in {"none", "deny"}
           /\ \A i \in DOMAIN log[s] : log[s][i].type # "CALL_WEBSOCKET_PUT"
           /\ (At(s, "running") /\ sup[s].socket = "open" /\ NothingToPut(s))
                 => sup[s].frames > 0

\* C21 (as claimed): whenever send() has returned without sending a message,
\* or has raised, CALL_ENDED has been broadcast for the session or the
\* endpoint is on its way to broadcast it (its wait has a failed task to
\* return for).
C21_FailedSendClosesSession ==
    \A s \in Sessions :
        (sup[s].dropped > 0 \/ sup[s].failed) =>
            \/ \E i \in DOMAIN log[s] : log[s][i].type = "CALL_ENDED"
            \/ sup[s].failed /\ sup[s].stage \in {"running", "returned"}

\* C18 (as claimed): after a provider error in the stream of a turn, a
\* TTS_FLUSH of that turn is published, the driver has not stopped consuming
\* transcripts and the session's tasks are not cancelled.
C18_ErrorEndsOnlyTheTurn ==
    \A t \in 1..MaxTurns :
        drv.ends[t] = "error" =>
            /\ Published("TTS_FLUSH", t) # <<>>
            /\ drv.pc # "failed"
            /\ ~sup[1].cancelled

\* C19 (as claimed): once the endpoint of a session that has a session row is
\* over, by an exception while it builds the components or through its
\* finally, the row has been ended and CALL_ENDED has been broadcast; and
\* when a task of the session has failed and the endpoint has returned from
\* its wait, the other tasks are cancelled.
C19_EveryPathEndsSession ==
    \A s \in Sessions :
        /\ (dbSess[s].exists /\ (sup[s].stage = "crashed" \/ phase[s] = "ended"))
              => /\ ~dbSess[s].is_active
                 /\ \E i \in DOMAIN log[s] : log[s][i].type = "CALL_ENDED"
        /\ (s = 1 /\ drv.pc = "failed" /\ sup[s].stage = "returned")
              => sup[s].cancelled

\* C20 (as claimed): after the client's socket has closed, the session's
\* endpoint eventually ends the session. (When check_connection has
\* published CALL_ENDED and no completion is in flight, every task of the
\* session waits on a subscription or on the socket: nothing can run.)
C20_CloseEndsSession ==
    (sup[1].socket = "closed") ~> (phase[1] = "ended")

\* C22: a Minimax client has at most one provider socket open and at most one
\* _listen_for_audio task, whatever the order of its sends, flushes and
\* reconnections
C22_OneProviderSession ==
    Cardinality(mx.open) <= 1 /\ mx.listeners <= 1

\* frame i of the wire is sent while a task is open on its socket: a
\* task_start went out on it at j and no task_finish since
OpenAt(j, i) ==
    /\ j < i
    /\ mx.wire[j].event = "task_start" /\ mx.wire[j].sock = mx.wire[i].sock
    /\ \A l \in (j + 1)..(i - 1) :
          ~(mx.wire[l].event = "task_finish" /\ mx.wire[l].sock = mx.wire[i].sock)

\* C23: the frames a Minimax client sends are well framed: no task_start
\* while a task is open, every task_continue inside a task that a task_start
\* of the same turn opened and a task_started has confirmed, and a
\* task_finish closing the task once the turn's TTS_FLUSH has been handled
C23_TaskFraming ==
    /\ \A i \in DOMAIN mx.wire :
          /\ mx.wire[i].event = "task_start" =>
                ~\E j \in DOMAIN mx.wire : OpenAt(j, i)
          /\ mx.wire[i].event = "task_continue" =>
                \E j \in DOMAIN mx.wire :
                   /\ OpenAt(j, i) /\ mx.wire[j].turn = mx.wire[i].turn
                   /\ \E l \in (j + 1)..(i - 1) :
                         /\ mx.wire[l].event = "task_started"
                         /\ mx.wire[l].sock = mx.wire[i].sock
    /\ \A t \in 1..MinimaxTurns :
          mx.flushed[t].handled /\ mx.tf = "idle" /\ mx.flush_inbox = <<>> =>
             \A j \in DOMAIN mx.wire :
                mx.wire[j].event = "task_start" /\ mx.wire[j].sock \in mx.open =>
                   \E l \in (j + 1)..Len(mx.wire) :
                      mx.wire[l].event = "task_finish" /\ mx.wire[l].sock = mx.wire[j].sock

\* C24 as stated: after add_word_to_buffer no buffer is left that ends with
\* '.', '!' or '?' and has 10 characters or more, or that holds
\* min_buffer_size words or more, and a buffer that is left has its flush
\* timer armed
C24_FlushWhenDue ==
    LET b == tts[1].word_buffer
    IN  b.words > 0 =>
           /\ ~(b.stop /\ b.chars >= 10)
           /\ ~(b.words >= min_buffer_size)
           /\ tts[1].buffer_timer

\* C24, amended: the word count decides only for a buffer that does not end
\* with '.', '!' or '?'; a buffer that is left has its flush timer armed, and
\* is emptied in the end
C24_FlushWhenDueUnlessShortSentence ==
    /\ [](LET b == tts[1].word_buffer
          IN  b.words > 0 =>
                 /\ ~(b.stop /\ b.chars >= 10)
                 /\ ~(~b.stop /\ b.words >= min_buffer_size)
                 /\ tts[1].buffer_timer)
    /\ (tts[1].word_buffer.words > 0) ~> (tts[1].word_buffer.words = 0)

\* a sentence of five words and nine characters waits for the timer after a
\* longer one was flushed
C24_Witness ==
    /\ tts[1].word_buffer.words >= min_buffer_size
    /\ tts[1].word_buffer.stop
    /\ tts[1].buffer_timer
    /\ dg # {}

\* C25: once handle_tts_flush has handled a TTS_FLUSH, every text buffered
\* before has been sent to the provider and the buffer is empty (Minimax
\* client)
C25_FlushSendsEverything ==
    \A t \in 1..MinimaxTurns :
        mx.flushed[t].handled =>
            /\ mx.flushed[t].before \subseteq mx.flushed[t].sent
            /\ mx.flushed[t].left = {}

\* C26: barge-in in the Deepgram client. Handling a FINAL_TRANSCRIPTION_CREATED
\* sets is_interrupted, empties the buffer, cancels the timer and publishes
\* CLEAR_EXISTING_BUFFER with source tts_interrupt; while is_interrupted is
\* set no text goes to the provider and no audio is broadcast; only the
\* handling of an LLM_GENERATED_TEXT clears is_interrupted
C26_BargeIn ==
    [][/\ (ready # <<>> /\ Head(ready).kind = "speech" /\ ready' = Tail(ready)) =>
             /\ tts'[1].is_interrupted
             /\ tts'[1].word_buffer = EmptyBuffer /\ ~tts'[1].buffer_timer
             /\ log'[1] = Append(log[1], Msg("CLEAR_EXISTING_BUFFER", "tts_interrupt",
                                             Head(ready).data))
       /\ dg' # dg => ~tts'[1].is_interrupted
       /\ (/\ Len(log'[1]) = Len(log[1]) + 1
           /\ log'[1][Len(log'[1])].type = "CALL_WEBSOCKET_PUT") => ~tts[1].is_interrupted
       /\ (tts[1].is_interrupted /\ ~tts'[1].is_interrupted) =>
             ready # <<>> /\ Head(ready).kind = "text"]_vars

\* C27: the audio listener of a TTS client lives as long as the provider
\* connection: while the client's socket is open and the provider has not
\* reported a failure, the listener runs and the client is connected; a final
\* marker ends neither (ElevenLabs client)
C27_ListenerOutlivesTurns ==
    (el.websocket \in el.open /\ el.stopped_by # "error") =>
        (el.listeners = 1 /\ el.is_connected)

\* C28: update_session_usage on a session that is not active returns the
\* not-active outcome (None) and leaves the session's duration_ms and
\* chunk_count as they were; on an active session it adds exactly the
\* increments, in one step, and returns the row as it is afterwards; no other
\* session's row changes
C28_UpdateSessionUsage ==
    [][\A t \in tasks :
          (t.kind = "dbwrite" /\ t.pc = "session" /\ t \notin tasks') =>
             \E u \in tasks' \ tasks :
                /\ u.c = t.c
                /\ \A s \in Sessions \ {t.s} : dbSess'[s] = dbSess[s]
                /\ IF dbSess[t.s].exists /\ dbSess[t.s].is_active
                   THEN /\ dbSess'[t.s] =
                              [dbSess[t.s] EXCEPT !.duration_ms = @ + t.ms,
                                                  !.chunk_count = @ + 1]
                        /\ u.ret = [outcome |-> "row", row |-> dbSess'[t.s]]
                   ELSE /\ dbSess'[t.s] = dbSess[t.s]
                        /\ u.ret.outcome = "None"]_vars

\* a write for a session that had been ended came back with None
C28_Witness ==
    \E t \in tasks :
        /\ t.ret.outcome = "None"
        /\ dbSess[t.s].exists /\ ~dbSess[t.s].is_active
        /\ \E u \in tasks : u.ret.outcome = "row"

\* C29: after reset_user_usage and one more track_audio_chunk(blob) on the
\* user's session, every write done, the user's usage of the day is
\* ceil(len(blob) / bytes_per_ms)
C29_ResetThenOneChunk ==
    (/\ reset_at >= 0 /\ nchunks = reset_at + 1
     /\ calls[nchunks].s = 1 /\ tasks = {})
    => dbDaily[today] = (calls[nchunks].bytes + AUDIO_BYTES_PER_MS - 1) \div AUDIO_BYTES_PER_MS

\* the duration the chunks up to c that reached _add_usage brought in
EnteredUpTo(c) ==
    SumOver([k \in Chunks |-> calls[k].dur], {k \in 1..c : calls[k].entered})

\* the tracker's counters when the user started with the usage in base and
\* the session has added e
CountersAfter(e) ==
    [session_duration_ms |-> e, daily_duration_ms |-> base.daily[0] + e,
     monthly_duration_ms |-> base.monthly + e]

\* C30: a write of _update_database or _record_limit_reached that raises
\* changes neither the tracker (its counters, voice_enabled), nor what
\* track_audio_chunk returned or returns, nor the messages broadcast, nor the
\* session or the tasks waiting to run; the counters and every value returned
\* are those the chunks alone determine
C30_WriteErrorsContained ==
    /\ [](\A c \in 1..nchunks :
            calls[c].entered =>
               /\ calls[c].after = Usage(CountersAfter(EnteredUpTo(c)))
               /\ calls[c].ret =
                     IF Tracker_check_limits(CountersAfter(EnteredUpTo(c))) = "none"
                     THEN "allow" ELSE "deny")
    /\ [](phase[1] = "running" =>
            Usage(tr[1]) = Usage(CountersAfter(EnteredUpTo(nchunks))))
    /\ [][(\E t \in tasks :
              \/ UpdateDatabaseFails(t)
              \/ \E at \in {"event", "mark"} : RecordLimitFails(t, at))
          => /\ tr' = tr /\ calls' = calls /\ log' = log
             /\ phase' = phase /\ ready' = ready /\ sup' = sup]_vars

\* the first chunk was allowed and its session write landed, then the daily
\* write raised: the day's row is where it started, the tracker has counted
\* the chunk and is still running
C30_Witness ==
    /\ tasks = {} /\ nchunks = 1 /\ phase[1] = "running"
    /\ calls[1].ret = "allow" /\ calls[1].dur > 0
    /\ landed[1][0] = calls[1].dur
    /\ dbDaily[0] = base.daily[0] /\ dbMonthly = base.monthly
    /\ tr[1].daily_duration_ms = base.daily[0] + calls[1].dur
    /\ tr[1].voice_enabled

\* C31: an _add_usage(s) that has ended added s to the three counters, left the
\* handler voice-disabled with limit_reached_type the first limit met (session,
\* daily, monthly, each with >=) and a VOICE_LIMIT_REACHED with that limit_type
\* and is_voice_disabled broadcast by it, and broadcast a VOICE_USAGE_UPDATE
C31_AddUsage ==
    vh.call.outcome \in {"returned", "raised"} =>
        LET c == vh.call
            k == LimitKind(c.before[1] + c.s, c.before[2] + c.s, c.before[3] + c.s)
            during == (c.from + 1) .. c.to
        IN  /\ c.after = <<c.before[1] + c.s, c.before[2] + c.s, c.before[3] + c.s>>
            /\ k # "none" =>
                  /\ c.disabled_after /\ c.type_after = k
                  /\ \E i \in during :
                        vh.sent[i] = HandlerMsg("VOICE_LIMIT_REACHED", k, TRUE)
            /\ \E i \in during : vh.sent[i].type = "VOICE_USAGE_UPDATE"

\* C39: once the handler has enforced a limit, limit_reached_type keeps its
\* value, and the handler broadcasts VOICE_LIMIT_REACHED at most once
C39_EnforcementStable ==
    /\ [](Cardinality({i \in 1..Len(vh.sent) :
                          vh.sent[i].type = "VOICE_LIMIT_REACHED"}) <= 1)
    /\ [][vh.limit_reached_type # "none"
             => vh'.limit_reached_type = vh.limit_reached_type]_vars

\* C32: run_async begins a completion only when none is in flight, for the
\* oldest transcription it has not processed, and after the TTS_FLUSH of the
\* turn before it has been published
C32_OneTurnAtATime ==
    [][(drv'.cur # drv.cur \/ Len(drv'.inbox) < Len(drv.inbox))
       => /\ drv.pc = "idle"
          /\ drv'.pc = "streaming"
          /\ drv'.cur = drv.cur + 1
          /\ Head(drv.inbox).c = drv'.cur
          /\ drv.cur > 0 =>
                \E i \in DOMAIN log[1] :
                    log[1][i].type = "TTS_FLUSH" /\ log[1][i].c = drv.cur]_vars

\* the second transcription was published while the first completion was
\* streaming, and its completion streams after the first turn's TTS_FLUSH
C32_Witness ==
    /\ drv.cur = 2 /\ drv.pc = "streaming"
    /\ \E i, j, k \in DOMAIN log[1] :
          /\ i < j /\ j < k
          /\ log[1][i].type = "LLM_GENERATED_TEXT" /\ log[1][i].c = 1
          /\ log[1][j].type = "FINAL_TRANSCRIPTION_CREATED" /\ log[1][j].c = 2
          /\ log[1][k].type = "TTS_FLUSH" /\ log[1][k].c = 1

\* the messages of the given type broadcast for session s
Announced(s, type) ==
    Cardinality({i \in DOMAIN log[s] : log[s][i].type = type})

C34_NoBypassAtStart ==
    [][\A s \in Sessions :
          (/\ phase[s] # "running" /\ phase'[s] = "running"
           /\ \/ dbDaily'[today'] >= daily_limit_ms
              \/ dbMonthly' >= monthly_limit_ms)
          => /\ ~tr'[s].voice_enabled
             /\ tr'[s].daily_duration_ms = dbDaily'[today']
             /\ tr'[s].monthly_duration_ms = dbMonthly']_vars

\* C35: the tasks of a session are cancelled only by the teardown of that
\* session: a session whose own tasks have not failed is not cancelled when
\* another session's endpoint disposes
C35_TeardownIsolated ==
    [][\A o \in Sessions :
          (sup'[o].cancelled /\ ~sup[o].cancelled)
          => (sup[o].failed \/ (o = 1 /\ drv.pc = "failed"))]_vars

\* C36: end_session, called from the interceptor's finally and from the
\* endpoint's finally, ends the session's row once (ended_at is set at most
\* once, and once when both calls have returned for a session with a row),
\* and at most one long_session_no_breaks event is recorded for the session.
C36_EndIdempotent ==
    /\ fin.stamps <= 1
    /\ (/\ fin.row.exists
        /\ \A c \in EndCallers : fin.call[c].pc = "done") => fin.stamps = 1
    /\ fin.events <= 1

\* C37: smart buffering loses no token. While the Minimax client stays
\* connected, a token the text handler hands to add_word_to_buffer is in the
\* word buffer, in a task_continue frame or held by a suspended send when
\* the handler is done with it, also when a flush is in progress; and tokens
\* that leave the word buffer are in a task_continue frame or held by a
\* suspended send, unless a CLEAR_EXISTING_BUFFER removed them.
C37_NoTokenLost ==
    [][(mx.is_connected /\ mx'.is_connected)
         => /\ Len(mx'.text_inbox) < Len(mx.text_inbox)
                 => Head(mx.text_inbox).id \in
                       (mx'.word_buffer.toks \cup Sent(mx') \cup mx'.flush.toks)
            /\ \A id \in mx.word_buffer.toks \ mx'.word_buffer.toks :
                  \/ id \in (Sent(mx') \cup mx'.flush.toks)
                  \/ id \notin mx'.buffered]_vars

\* C38: the CLEAR_EXISTING_BUFFER the Minimax client broadcasts on the first
\* token of a turn does not disturb the client: when its handle_clear_buffer
\* takes the message, the word buffer keeps its text, the handler stays alive
\* and run_async goes on serving.
C38_OwnClearHarmless ==
    [][(mx.tc = "idle" /\ mx'.clear_inbox < mx.clear_inbox)
         => /\ mx'.word_buffer = mx.word_buffer
            /\ mx'.tc # "dead"
            /\ mx'.run = mx.run]_vars

\* C40: a connect_websocket call makes at most max_connection_attempts
\* connection attempts; it returns True only with is_connected true and
\* exactly one listener started by the call, and False otherwise; a
\* successful connection leaves connection_attempts at 0.
C40_BoundedReconnection ==
    \A c \in ConnectCallers :
       /\ cn.call[c].attempts <= max_connection_attempts
       /\ cn.call[c].pc = "returned" => cn.call[c].result \in {"True", "False"}
       /\ cn.call[c].result = "True"
             => (cn.call[c].connected /\ cn.call[c].started = 1)

====
